---- MODULE Spec2Model ----
(***************************************************************************)
(* Model of the metadata extraction and specification synthesis pipeline   *)
(* of nestjs-auto-docs: the DTO analyzer (type resolver), the              *)
(* configuration service, the module scanner with category resolution,    *)
(* and the OpenAPI generator's versioned path/server synthesis.            *)
(*                                                                         *)
(* Text is modelled as a sequence of tokens or characters, so that         *)
(* parsing, trimming and joining are computed rather than assumed.         *)
(***************************************************************************)
EXTENDS Integers, Sequences, FiniteSets, TLC

VARIABLES
  \* DtoAnalyzer
  classDecls,     \* the program's class declarations: class name -> properties
  visitedTypes,   \* DtoAnalyzer.visitedTypes (instance field, a Set<string>)
  dtoCall,        \* the last top-level call made on the analyzer
  dtoResult,      \* what that call returned
  \* ConfigService
  cfgInput,       \* the options object handed to the constructor
  cfgState,       \* "none" before construction, then "constructed" or "failed"
  cfgError,       \* the field named by the error the constructor threw
  config,         \* ConfigService.config (sequence of length 0 while unset)
  cfgRead,        \* what the last get(key) returned
  \* ModuleScanner and category resolution
  sourceFiles,    \* the project's source files, in order
  scanCall,       \* the last lookup made
  scanResult,     \* what it returned
  \* OpenApiGenerator
  genInput,       \* the scanned controllers and the options handed to generate
  genResult,      \* the document it returned
  \* ExampleGenerator
  exInput,        \* the property handed to generateExample
  exResult,       \* the example it returned
  \* ValidatorExtractor
  valInput,       \* the decorators of the property handed to extractValidators
  valResult,      \* the validators it returned
  \* Location utilities
  locInput,       \* the segments or the location path handed to a location utility
  locCall,        \* the utility called last
  locResult,      \* what it returned
  \* RouteScanner
  routeInput,     \* the controller class and base path handed to scanRoutes
  routeResult,    \* the routes it returned
  \* AutoDocsModule and the re-synthesis passes of its service
  syncOptions,    \* the options AutoDocsModule.forRoot merged
  syncService,    \* the AutoDocsService: initialized, watching, passes in flight, follow-up pending
  syncLog,        \* what has happened so far: signals received, passes started and completed
  \* ModuleScanner.formatModuleName on its own
  fmtInput,       \* the class name handed to formatModuleName
  fmtResult,      \* the label it returned
  \* OpenApiGenerator: security
  secInput,       \* the routes and options handed to the generator's security step
  secResult,      \* the operations and security schemes it emitted
  \* the caller of the ConfigService
  returned,       \* the object the last getAll() handed to the caller
  nested          \* the nested objects (theme) by identity, shared by whoever holds them

dtoVars == <<classDecls, visitedTypes, dtoCall, dtoResult>>
cfgVars == <<cfgInput, cfgState, cfgError, config, cfgRead>>
scanVars == <<sourceFiles, scanCall, scanResult>>
genVars == <<genInput, genResult>>
exVars == <<exInput, exResult>>
valVars == <<valInput, valResult>>
locVars == <<locInput, locCall, locResult>>
routeVars == <<routeInput, routeResult>>
syncVars == <<syncOptions, syncService, syncLog>>
fmtVars == <<fmtInput, fmtResult>>
secVars == <<secInput, secResult>>
callerVars == <<returned, nested>>

\* what the operations of one component leave alone
otherThanDto == <<cfgVars, scanVars, genVars, exVars, valVars, locVars, routeVars, syncVars, fmtVars, secVars, callerVars>>
otherThanCfg == <<dtoVars, scanVars, genVars, exVars, valVars, locVars, routeVars, syncVars, fmtVars, secVars, callerVars>>
otherThanScan == <<dtoVars, cfgVars, genVars, exVars, valVars, locVars, routeVars, syncVars, fmtVars, secVars, callerVars>>
otherThanGen == <<dtoVars, cfgVars, scanVars, exVars, valVars, locVars, routeVars, syncVars, fmtVars, secVars, callerVars>>
otherThanEx == <<dtoVars, cfgVars, scanVars, genVars, valVars, locVars, routeVars, syncVars, fmtVars, secVars, callerVars>>
otherThanVal == <<dtoVars, cfgVars, scanVars, genVars, exVars, locVars, routeVars, syncVars, fmtVars, secVars, callerVars>>
otherThanLoc == <<dtoVars, cfgVars, scanVars, genVars, exVars, valVars, routeVars, syncVars, fmtVars, secVars, callerVars>>
otherThanRoute == <<dtoVars, cfgVars, scanVars, genVars, exVars, valVars, locVars, syncVars, fmtVars, secVars, callerVars>>
otherThanSync == <<dtoVars, cfgVars, scanVars, genVars, exVars, valVars, locVars, routeVars, fmtVars, secVars, callerVars>>
otherThanFmt == <<dtoVars, cfgVars, scanVars, genVars, exVars, valVars, locVars, routeVars, syncVars, secVars, callerVars>>
otherThanSec == <<dtoVars, cfgVars, scanVars, genVars, exVars, valVars, locVars, routeVars, syncVars, fmtVars, callerVars>>
otherThanCaller == <<dtoVars, cfgVars, scanVars, genVars, exVars, valVars, locVars, routeVars, syncVars, fmtVars, secVars>>

vars == <<classDecls, visitedTypes, dtoCall, dtoResult,
          cfgInput, cfgState, cfgError, config, cfgRead,
          sourceFiles, scanCall, scanResult,
          genInput, genResult,
          exInput, exResult,
          valInput, valResult,
          locInput, locCall, locResult,
          routeInput, routeResult,
          syncOptions, syncService, syncLog,
          fmtInput, fmtResult,
          secInput, secResult,
          returned, nested>>

(***************************************************************************)
(* Generic helpers                                                         *)
(***************************************************************************)
SeqsUpTo(S, n) == UNION {[1..k -> S] : k \in 0..n}

Last(s) == s[Len(s)]

(***************************************************************************)
(* DtoAnalyzer: the type graph handed over by the parser                   *)
(*                                                                         *)
(* A type name (Type.getText()) is a sequence of tokens; "[]" is the array *)
(* suffix.  A type is a record [k, name, elem] where elem holds the        *)
(* element type of an array (a sequence of length 0 or 1).                 *)
(***************************************************************************)
maxDepth == 5

\* Bounds of the model
MaxProps == 2      \* properties of the generated class A
MaxArrayDims == 7  \* array nesting of the deepest type queried
ChainLen == 6      \* classes in the acyclic chain N1 -> N2 -> ... -> string
Fuel == 14         \* recursion budget: running out of it means divergence

StringT  == [k |-> "string",  name |-> <<"string">>,  elem |-> <<>>]
NumberT  == [k |-> "number",  name |-> <<"number">>,  elem |-> <<>>]
BooleanT == [k |-> "boolean", name |-> <<"boolean">>, elem |-> <<>>]
DateT    == [k |-> "object",  name |-> <<"Date">>,    elem |-> <<>>]
ClassT(n) == [k |-> "class", name |-> n, elem |-> <<>>]
EnumT(n)  == [k |-> "enum",  name |-> n, elem |-> <<>>]
UnionT(n) == [k |-> "union", name |-> n, elem |-> <<>>]
ArrayT(t) == [k |-> "array", name |-> t.name \o <<"[]">>, elem |-> <<t>>]

RECURSIVE ArrayN(_, _)
ArrayN(t, n) == IF n = 0 THEN t ELSE ArrayT(ArrayN(t, n - 1))

\* Class names
ClsA == <<"A">>
ClsB == <<"B">>
ClsDate == <<"Date", "Range", "Dto">>
ChainToks == <<"N1", "N2", "N3", "N4", "N5", "N6", "N7", "N8", "N9">>
ChainName(i) == << ChainToks[i] >>
ChainNames == {ChainName(i) : i \in 1..ChainLen}
GenClasses == {ClsA, ClsB}
ClassNames == GenClasses \cup {ClsDate} \cup ChainNames

\* Declared members of the enum and union types of the program
EnumNames == {<<"Status">>, <<"Date", "Kind">>}
EnumMembers(n) == <<"on", "off">>
UnionNames == {<<"A", "|", "B">>, <<"Date", "Range", "Dto", "|", "undefined">>}
UnionMembers(n) == IF n = <<"A", "|", "B">> THEN << <<"A">>, <<"B">> >>
                   ELSE << <<"Date", "Range", "Dto">>, <<"undefined">> >>

\* The property types a generated class may declare
PropTypes == {StringT, ClassT(ClsA), ClassT(ClsB)}

Prop(n, t) == [name |-> n, type |-> t]
PropToks == <<"p1", "p2", "p3", "p4">>
PropName(i) == << PropToks[i] >>

\* The fixed declarations: an acyclic chain of classes, each nested in the
\* previous one through a property, and a class whose name contains Date.
FixedDecl(n) ==
  IF n = ClsDate THEN << Prop(<<"from">>, StringT), Prop(<<"to">>, StringT) >>
  ELSE LET i == CHOOSE j \in 1..ChainLen : ChainName(j) = n IN
       IF i < ChainLen THEN << Prop(<<"next">>, ClassT(ChainName(i + 1))) >>
       ELSE << Prop(<<"leaf">>, StringT) >>

\* The types a caller may hand to analyzeType as a top-level query
TopTypes ==
  {ClassT(n) : n \in GenClasses \cup {ClsDate, ChainName(1)}}
    \cup {ArrayT(ClassT(ClsA)), ArrayN(StringT, MaxArrayDims), DateT, NumberT}
    \cup {EnumT(n) : n \in EnumNames} \cup {UnionT(n) : n \in UnionNames}

(***************************************************************************)
(* DtoAnalyzer: the metadata it produces                                   *)
(***************************************************************************)
\* TypeMetadata; an optional field is a sequence of length 0 (undefined) or 1
Meta(type, isPrimitive, isArray, isEnum, elementType, format, enumValues, unionTypes, properties) ==
  [type |-> type, isPrimitive |-> isPrimitive, isArray |-> isArray, isEnum |-> isEnum,
   isOptional |-> FALSE, elementType |-> elementType, format |-> format,
   enumValues |-> enumValues, unionTypes |-> unionTypes, properties |-> properties]

LowerToken(t) ==
  CASE t = "Date" -> "date" [] t = "Email" -> "email" [] t = "Url" -> "url"
    [] t = "Uri" -> "uri" [] t = "Uuid" -> "uuid" [] OTHER -> t

Includes(typeName, tok) == \E i \in 1..Len(typeName) : typeName[i] = tok

IncludesLower(typeName, tok) == \E i \in 1..Len(typeName) : LowerToken(typeName[i]) = tok

detectStringFormat(typeName) ==
  IF IncludesLower(typeName, "email") THEN <<"email">>
  ELSE IF IncludesLower(typeName, "url") \/ IncludesLower(typeName, "uri") THEN <<"uri">>
  ELSE IF IncludesLower(typeName, "uuid") THEN <<"uuid">>
  ELSE IF IncludesLower(typeName, "date") THEN <<"date-time">>
  ELSE <<>>

\* Type.isObject(): classes, interfaces such as Date, and arrays (Array<T>)
isObject(t) == t.k \in {"class", "object", "array"}

\* the first declaration of the type's symbol is a ClassDeclaration
isClassDeclaration(t) == t.k = "class"

Ret(md, vis, ok) == [md |-> md, vis |-> vis, ok |-> ok]

RECURSIVE analyzeType(_, _, _, _, _)
RECURSIVE analyzeProperties(_, _, _, _, _)

\* properties.map(prop => this.analyzeProperty(prop)): left to right, each call
\* seeing the visited set the previous calls left behind
analyzeProperties(decls, props, i, vis, fuel) ==
  IF i > Len(props) THEN Ret(<<>>, vis, TRUE)
  ELSE LET one == analyzeType(decls, props[i].type, 0, vis, fuel)
           rest == analyzeProperties(decls, props, i + 1, one.vis, fuel)
       IN Ret(<< [name |-> props[i].name, type |-> one.md] >> \o rest.md,
              rest.vis, one.ok /\ rest.ok)

analyzeType(decls, type, depth, vis, fuel) ==
  IF fuel = 0 THEN Ret(Meta(<<"#diverged">>, FALSE, FALSE, FALSE, <<>>, <<>>, <<>>, <<>>, <<>>), vis, FALSE)
  ELSE IF depth > maxDepth
  THEN Ret(Meta(<<"unknown">>, FALSE, FALSE, FALSE, <<>>, <<>>, <<>>, <<>>, <<>>), vis, TRUE)
  ELSE LET typeName == type.name IN
  IF typeName \in vis
  THEN Ret(Meta(typeName, FALSE, FALSE, FALSE, <<>>, <<>>, <<>>, <<>>, <<>>), vis, TRUE)
  ELSE
    LET isArray == type.k = "array"
        baseType == IF isArray THEN type.elem[1] ELSE type
        el == IF isArray THEN analyzeType(decls, baseType, depth + 1, vis, fuel - 1)
              ELSE Ret(<<>>, vis, TRUE)
        elementType == IF isArray THEN << el.md >> ELSE <<>>
    IN
    IF baseType.k = "string"
    THEN Ret(Meta(<<"string">>, TRUE, isArray, FALSE, elementType,
                  detectStringFormat(typeName), <<>>, <<>>, <<>>), el.vis, el.ok)
    ELSE IF baseType.k = "number"
    THEN Ret(Meta(<<"number">>, TRUE, isArray, FALSE, elementType, <<>>, <<>>, <<>>, <<>>),
             el.vis, el.ok)
    ELSE IF baseType.k = "boolean"
    THEN Ret(Meta(<<"boolean">>, TRUE, isArray, FALSE, elementType, <<>>, <<>>, <<>>, <<>>),
             el.vis, el.ok)
    ELSE IF Includes(typeName, "Date")
    THEN Ret(Meta(<<"string">>, TRUE, isArray, FALSE, elementType, <<"date-time">>,
                  <<>>, <<>>, <<>>), el.vis, el.ok)
    ELSE IF baseType.k = "enum"
    THEN Ret(Meta(<<"string">>, FALSE, isArray, TRUE, elementType, <<>>,
                  << EnumMembers(baseType.name) >>, <<>>, <<>>), el.vis, el.ok)
    ELSE IF baseType.k = "union"
    THEN Ret(Meta(typeName, FALSE, isArray, FALSE, elementType, <<>>, <<>>,
                  << UnionMembers(baseType.name) >>, <<>>), el.vis, el.ok)
    ELSE IF isObject(baseType) /\ isClassDeclaration(baseType)
    THEN LET ps == analyzeProperties(decls, decls[baseType.name], 1,
                                     el.vis \cup {typeName}, fuel - 1)
         IN Ret(Meta(baseType.name, FALSE, isArray, FALSE, elementType, <<>>, <<>>, <<>>,
                     << ps.md >>), ps.vis, el.ok /\ ps.ok)
    ELSE Ret(Meta(typeName, FALSE, isArray, FALSE, elementType, <<>>, <<>>, <<>>, <<>>),
             IF isObject(baseType) THEN el.vis \cup {typeName} ELSE el.vis, el.ok)

\* analyzeDto: clears the visited set, then analyzes each property
analyzeDto(decls, className, fuel) ==
  LET ps == analyzeProperties(decls, decls[className], 1, {}, fuel)
  IN Ret([name |-> className, properties |-> ps.md], ps.vis, ps.ok)

(***************************************************************************)
(* The components before they are used                                     *)
(***************************************************************************)
NoCall == [op |-> "none", arg |-> StringT]

DtoStart ==
  /\ visitedTypes = {}
  /\ dtoCall = NoCall
  /\ dtoResult = <<>>

\* the analyzer before any program is loaded
DtoIdle == DtoStart /\ classDecls = <<>>

CfgIdle ==
  /\ cfgInput = <<>>
  /\ cfgState = "none"
  /\ cfgError = "ok"
  /\ config = <<>>
  /\ cfgRead = <<>>

ScanStart ==
  /\ scanCall = [op |-> "none", name |-> <<>>]
  /\ scanResult = <<>>

ScanIdle == ScanStart /\ sourceFiles = <<>>

GenIdle ==
  /\ genInput = <<>>
  /\ genResult = <<>>

ExIdle ==
  /\ exInput = <<>>
  /\ exResult = <<>>

ValIdle ==
  /\ valInput = <<>>
  /\ valResult = <<>>

LocIdle ==
  /\ locInput = <<>>
  /\ locCall = <<>>
  /\ locResult = <<>>

RouteIdle ==
  /\ routeInput = <<>>
  /\ routeResult = <<>>

SyncIdle ==
  /\ syncOptions = <<>>
  /\ syncService = <<>>
  /\ syncLog = <<>>

FmtIdle ==
  /\ fmtInput = <<>>
  /\ fmtResult = <<>>

SecIdle ==
  /\ secInput = <<>>
  /\ secResult = <<>>

\* the caller holds nothing yet; the one theme object it built is as it built it
CallerIdle ==
  /\ returned = <<>>
  /\ nested = [a \in {"theme1"} |-> [primaryColor |-> "#00f2ff", darkMode |-> TRUE]]

\* every other component is untouched while one component runs
OthersIdleDto == CfgIdle /\ ScanIdle /\ GenIdle /\ ExIdle /\ ValIdle /\ LocIdle /\ RouteIdle /\ SyncIdle /\ FmtIdle /\ SecIdle /\ CallerIdle
OthersIdleCfg == DtoIdle /\ ScanIdle /\ GenIdle /\ ExIdle /\ ValIdle /\ LocIdle /\ RouteIdle /\ SyncIdle /\ FmtIdle /\ SecIdle /\ CallerIdle
OthersIdleScan == DtoIdle /\ CfgIdle /\ GenIdle /\ ExIdle /\ ValIdle /\ LocIdle /\ RouteIdle /\ SyncIdle /\ FmtIdle /\ SecIdle /\ CallerIdle
OthersIdleGen == DtoIdle /\ CfgIdle /\ ScanIdle /\ ExIdle /\ ValIdle /\ LocIdle /\ RouteIdle /\ SyncIdle /\ FmtIdle /\ SecIdle /\ CallerIdle
OthersIdleEx == DtoIdle /\ CfgIdle /\ ScanIdle /\ GenIdle /\ ValIdle /\ LocIdle /\ RouteIdle /\ SyncIdle /\ FmtIdle /\ SecIdle /\ CallerIdle
OthersIdleVal == DtoIdle /\ CfgIdle /\ ScanIdle /\ GenIdle /\ ExIdle /\ LocIdle /\ RouteIdle /\ SyncIdle /\ FmtIdle /\ SecIdle /\ CallerIdle
OthersIdleLoc == DtoIdle /\ CfgIdle /\ ScanIdle /\ GenIdle /\ ExIdle /\ ValIdle /\ RouteIdle /\ SyncIdle /\ FmtIdle /\ SecIdle /\ CallerIdle
OthersIdleRoute == DtoIdle /\ CfgIdle /\ ScanIdle /\ GenIdle /\ ExIdle /\ ValIdle /\ LocIdle /\ SyncIdle /\ FmtIdle /\ SecIdle /\ CallerIdle
OthersIdleSync == DtoIdle /\ CfgIdle /\ ScanIdle /\ GenIdle /\ ExIdle /\ ValIdle /\ LocIdle /\ RouteIdle /\ FmtIdle /\ SecIdle /\ CallerIdle
OthersIdleFmt == DtoIdle /\ CfgIdle /\ ScanIdle /\ GenIdle /\ ExIdle /\ ValIdle /\ LocIdle /\ RouteIdle /\ SyncIdle /\ SecIdle /\ CallerIdle
OthersIdleSec == DtoIdle /\ CfgIdle /\ ScanIdle /\ GenIdle /\ ExIdle /\ ValIdle /\ LocIdle /\ RouteIdle /\ SyncIdle /\ FmtIdle /\ CallerIdle
OthersIdleCaller == DtoIdle /\ CfgIdle /\ ScanIdle /\ GenIdle /\ ExIdle /\ ValIdle /\ LocIdle /\ RouteIdle /\ SyncIdle /\ FmtIdle /\ SecIdle

(***************************************************************************)
(* DtoAnalyzer as a state machine: one analyzer instance, any sequence of  *)
(* top-level calls                                                         *)
(***************************************************************************)

\* the property lists a generated class may declare
PropLists ==
  {[i \in 1..Len(f) |-> Prop(PropName(i), f[i])] : f \in SeqsUpTo(PropTypes, MaxProps)}

\* class B declares nothing, a string, or a reference back to class A
BDecls == {<<>>, << Prop(<<"q">>, StringT) >>, << Prop(<<"q">>, ClassT(ClsA)) >>}

DeclSets ==
  {[n \in ClassNames |-> IF n = ClsA THEN a ELSE IF n = ClsB THEN b ELSE FixedDecl(n)] :
     a \in PropLists, b \in BDecls}

\* the classes a caller hands to analyzeDto
DtoClasses == GenClasses \cup {ClsDate, ChainName(1)}


InitDto == classDecls \in DeclSets /\ DtoStart /\ OthersIdleDto

AnalyzeDto(c) ==
  LET r == analyzeDto(classDecls, c, Fuel) IN
  /\ visitedTypes' = r.vis
  /\ dtoCall' = [op |-> "analyzeDto", arg |-> ClassT(c)]
  /\ dtoResult' = << [md |-> r.md, ok |-> r.ok] >>
  /\ UNCHANGED <<classDecls, otherThanDto>>

AnalyzeType(t) ==
  LET r == analyzeType(classDecls, t, 0, visitedTypes, Fuel) IN
  /\ visitedTypes' = r.vis
  /\ dtoCall' = [op |-> "analyzeType", arg |-> t]
  /\ dtoResult' = << [md |-> r.md, ok |-> r.ok] >>
  /\ UNCHANGED <<classDecls, otherThanDto>>

NextDto ==
  \/ \E c \in DtoClasses : AnalyzeDto(c)
  \/ \E t \in TopTypes : AnalyzeType(t)

SpecDto == InitDto /\ [][NextDto]_vars

(***************************************************************************)
(* Claims about the DtoAnalyzer                                            *)
(***************************************************************************)
Called == dtoCall.op # "none"

TheResult == dtoResult[1]

\* a non-expanding reference descriptor carrying the name n
IsReference(md, n) ==
  /\ md.type = n
  /\ ~md.isPrimitive /\ ~md.isArray /\ ~md.isEnum
  /\ md.properties = <<>> /\ md.elementType = <<>>

\* the property descriptors of the root type of the last call, if it was expanded
RootProperties ==
  IF dtoCall.op = "analyzeDto" THEN TheResult.md.properties
  ELSE IF TheResult.md.properties # <<>> THEN TheResult.md.properties[1]
  ELSE <<>>

\* the indexes of the declared properties of class n whose type is n itself
SelfProps(n) == {i \in 1..Len(classDecls[n]) : classDecls[n][i].type = ClassT(n)}

\* C1: resolving a class T that has a property of type T terminates, and the
\* descriptor of that property is a non-expanding reference carrying T's name.
C1_SelfReferenceIsReference ==
  (Called /\ dtoCall.arg.k = "class") =>
     /\ TheResult.ok
     /\ \A i \in SelfProps(dtoCall.arg.name) :
          i \in 1..Len(RootProperties) =>
            IsReference(RootProperties[i].type, dtoCall.arg.name)

UnknownMeta == Meta(<<"unknown">>, FALSE, FALSE, FALSE, <<>>, <<>>, <<>>, <<>>, <<>>)

RECURSIVE UnknownPastBound(_, _)
\* every descriptor at a nesting level past maxDepth is `unknown` (and so has
\* nothing beneath it); level counts element types and property types alike
UnknownPastBound(md, level) ==
  IF level > maxDepth THEN md = UnknownMeta
  ELSE /\ \A i \in 1..Len(md.elementType) : UnknownPastBound(md.elementType[i], level + 1)
       /\ \A i \in 1..Len(md.properties) :
            \A j \in 1..Len(md.properties[i]) :
              UnknownPastBound(md.properties[i][j].type, level + 1)

\* the acyclic structures nested deeper than the bound
DeepTypes == {ClassT(ChainName(1)), ArrayN(StringT, MaxArrayDims)}

\* C2: for an acyclic structure nested deeper than maxDepth, through array
\* elements or through object properties, the descriptor at the first level
\* past the bound is `unknown` and nothing is expanded beneath it.
C2_UnknownPastDepthBound ==
  (Called /\ dtoCall.op = "analyzeType" /\ dtoCall.arg \in DeepTypes) =>
     UnknownPastBound(TheResult.md, 0)

\* the same bound on array nesting alone
ArrayNestingBounded ==
  (Called /\ dtoCall.op = "analyzeType" /\ dtoCall.arg = ArrayN(StringT, MaxArrayDims)) =>
     UnknownPastBound(TheResult.md, 0)

\* what a fresh analyzer returns for the last call
FreshResult ==
  IF dtoCall.op = "analyzeDto" THEN analyzeDto(classDecls, dtoCall.arg.name, Fuel).md
  ELSE analyzeType(classDecls, dtoCall.arg, 0, {}, Fuel).md

\* C3: the descriptor a top-level call returns does not depend on the calls
\* made before it on the same analyzer: it is what a fresh analyzer returns.
C3_ResultIndependentOfHistory == Called => TheResult.md = FreshResult

\* every top-level call returns within the recursion budget
DtoTerminates == Called => TheResult.ok

(***************************************************************************)
(* ConfigService                                                           *)
(*                                                                         *)
(* A string is a sequence of characters.  An option value is a record      *)
(* [tag, s, b]: tag "absent" (the key is not in the object), "undef" (the  *)
(* key is there and holds undefined), "str" or "bool".                     *)
(***************************************************************************)
MaxStrLen == 2   \* length of the title and version strings tried

Whitespace == {" ", "\t", "\n"}

Absent == [tag |-> "absent", s |-> <<>>, b |-> FALSE]
Undef  == [tag |-> "undef",  s |-> <<>>, b |-> FALSE]
Str(s) == [tag |-> "str", s |-> s, b |-> FALSE]
Bool(b) == [tag |-> "bool", s |-> <<>>, b |-> b]
\* a nested object, held by reference: s names the object
Obj(a) == [tag |-> "obj", s |-> << a >>, b |-> FALSE]

RECURSIVE trimStart(_)
trimStart(s) == IF s # <<>> /\ Head(s) \in Whitespace THEN trimStart(Tail(s)) ELSE s

RECURSIVE trimEnd(_)
trimEnd(s) ==
  IF s # <<>> /\ Last(s) \in Whitespace THEN trimEnd(SubSeq(s, 1, Len(s) - 1)) ELSE s

\* String.prototype.trim
trim(s) == trimEnd(trimStart(s))

\* JavaScript truthiness of an option value
Truthy(v) == (v.tag = "str" /\ v.s # <<>>) \/ (v.tag = "bool" /\ v.b)

\* v ?? d
Nullish(v) == v.tag \in {"absent", "undef"}

OptionKeys == {"title", "version", "sourcePath", "docsPath", "specPath",
               "scanOnStart", "watchMode", "includeSecurity", "theme"}

\* validateRequiredFields: the field whose check throws, or "ok"
validateRequiredFields_NoTrim(options) ==
  IF ~Truthy(options["title"]) THEN "title"
  ELSE IF ~Truthy(options["version"]) THEN "version"
  ELSE "ok"

validateRequiredFields(options) ==
  IF ~Truthy(options["title"]) \/ trim(options["title"].s) = <<>> THEN "title"
  ELSE IF ~Truthy(options["version"]) \/ trim(options["version"].s) = <<>> THEN "version"
  ELSE "ok"

\* the object literal of mergeWithDefaults before the spread
Defaulted(options) ==
  [k \in OptionKeys |->
     CASE k = "sourcePath" -> IF Truthy(options[k]) THEN options[k] ELSE Str(<<"s", "r", "c">>)
       [] k = "docsPath"   -> IF Truthy(options[k]) THEN options[k] ELSE Str(<<"/", "d">>)
       [] k = "specPath"   -> IF Truthy(options[k]) THEN options[k] ELSE Str(<<"/", "j">>)
       [] k = "scanOnStart" -> IF Nullish(options[k]) THEN Bool(TRUE) ELSE options[k]
       [] k = "watchMode"   -> IF Nullish(options[k]) THEN Bool(FALSE) ELSE options[k]
       [] k = "includeSecurity" -> IF Nullish(options[k]) THEN Bool(TRUE) ELSE options[k]
       [] OTHER -> Absent]

\* mergeWithDefaults: the defaulted literal, then `...options` copying every
\* own key of options over it (a key holding undefined included)
mergeWithDefaults(options) ==
  [k \in OptionKeys |->
     IF options[k].tag # "absent" THEN options[k] ELSE Defaulted(options)[k]]

Strings == SeqsUpTo({" ", "\t", "x"}, MaxStrLen)

RequiredValues == {Absent, Undef} \cup {Str(s) : s \in Strings}

\* the options objects a caller may pass
OptionSets ==
  {[k \in OptionKeys |->
      CASE k = "title" -> t [] k = "version" -> v [] k = "sourcePath" -> sp
        [] k = "watchMode" -> w [] OTHER -> Absent] :
     t \in RequiredValues, v \in RequiredValues,
     sp \in {Absent, Undef, Str(<<>>), Str(<<"l", "i", "b">>)},
     w \in {Absent, Undef, Bool(TRUE), Bool(FALSE)}}

InitCfg == CfgIdle /\ OthersIdleCfg

\* new ConfigService(options)
Construct(options) ==
  /\ cfgState = "none"
  /\ cfgInput' = << options >>
  /\ LET err == validateRequiredFields(options) IN
       IF err # "ok"
       THEN cfgState' = "failed" /\ cfgError' = err /\ config' = config
       ELSE cfgState' = "constructed" /\ cfgError' = "ok"
            /\ config' = << mergeWithDefaults(options) >>
  /\ UNCHANGED <<cfgRead, otherThanCfg>>

\* get(key)
Get(key) ==
  /\ cfgState = "constructed"
  /\ cfgRead' = << [key |-> key, value |-> config[1][key]] >>
  /\ UNCHANGED <<cfgInput, cfgState, cfgError, config, otherThanCfg>>

NextCfg ==
  \/ \E o \in OptionSets : Construct(o)
  \/ \E k \in OptionKeys : Get(k)

SpecCfg == InitCfg /\ [][NextCfg]_vars

\* getAll(): `{ ...this.config }`, a new object with the same top-level
\* values; a nested object is copied as the reference it is
getAll(stored) == stored

\* the caller calls getAll() and keeps what it returned
GetAll ==
  /\ cfgState = "constructed"
  /\ returned' = << getAll(config[1]) >>
  /\ UNCHANGED <<nested, otherThanCaller>>

\* values a caller writes into a field of the returned object
WrittenValues == {Absent, Str(<<"t", "m", "p">>), Bool(FALSE)}

\* the caller assigns a top-level field of the object getAll returned: that
\* object is the caller's own, this.config is another object
MutateReturned(key, value) ==
  /\ returned # <<>>
  /\ returned' = << [returned[1] EXCEPT ![key] = value] >>
  /\ UNCHANGED <<nested, otherThanCaller>>

ThemeConfigs == [primaryColor : {"#00f2ff", "#ff0000"}, darkMode : BOOLEAN]

\* the caller assigns a field of a nested object of the returned object: the
\* object written is the one every holder of the reference sees
MutateNested(key, theme) ==
  /\ returned # <<>>
  /\ returned[1][key].tag = "obj"
  /\ nested' = [nested EXCEPT ![returned[1][key].s[1]] = theme]
  /\ UNCHANGED <<returned, otherThanCaller>>

\* the options of a caller that reads the configuration back and changes it
CallerOptionSets ==
  {[k \in OptionKeys |->
      CASE k = "title" -> t [] k = "version" -> Str(<<"1">>) [] k = "sourcePath" -> sp
        [] k = "watchMode" -> w [] k = "theme" -> th [] OTHER -> Absent] :
     t \in {Str(<<"x">>), Str(<<>>)},
     sp \in {Absent, Str(<<"l", "i", "b">>)},
     w \in {Absent, Bool(TRUE)},
     th \in {Absent, Obj("theme1")}}

NextCfgCaller ==
  \/ \E o \in CallerOptionSets : Construct(o)
  \/ \E k \in {"sourcePath", "watchMode", "theme"} : Get(k)
  \/ GetAll
  \/ \E k \in {"sourcePath", "theme"}, v \in WrittenValues : MutateReturned(k, v)
  \/ \E t \in ThemeConfigs : MutateNested("theme", t)

SpecCfgCaller == InitCfg /\ [][NextCfgCaller]_vars

(***************************************************************************)
(* Claims about the ConfigService                                          *)
(***************************************************************************)
\* missing, empty or whitespace-only
Blank(v) == v.tag \in {"absent", "undef"} \/ \A i \in 1..Len(v.s) : v.s[i] \in Whitespace

\* C4: construction fails with a configuration error exactly when title or
\* version is missing, empty or whitespace-only; a failed construction has
\* stored no configuration, and every other construction succeeds.
C4_ConstructionFailsIffBlank ==
  cfgState # "none" =>
    /\ cfgState = "failed" <=> (Blank(cfgInput[1]["title"]) \/ Blank(cfgInput[1]["version"]))
    /\ cfgState = "failed" => config = <<>> /\ cfgError \in {"title", "version"}
    /\ cfgState = "constructed" => config # <<>>

\* a construction rejected for a title that is not empty but all whitespace
C4_Witness ==
  /\ cfgState = "failed"
  /\ cfgInput[1]["title"].tag = "str" /\ cfgInput[1]["title"].s # <<>>
  /\ config = <<>>

(***************************************************************************)
(* Text helpers (strings are sequences of characters)                      *)
(***************************************************************************)
StartsWithAt(s, p, i) ==
  /\ i + Len(p) - 1 <= Len(s)
  /\ \A j \in 1..Len(p) : s[i + j - 1] = p[j]

startsWith(s, p) == StartsWithAt(s, p, 1)

endsWith(s, p) == Len(p) <= Len(s) /\ StartsWithAt(s, p, Len(s) - Len(p) + 1)

\* the first index >= from at which c occurs in s, or 0
IndexOfChar(s, c, from) ==
  LET hits == {i \in from..Len(s) : s[i] = c}
  IN IF hits = {} THEN 0 ELSE CHOOSE i \in hits : \A j \in hits : i <= j

RECURSIVE split(_, _)
\* String.prototype.split on a one-character separator
split(s, sep) ==
  LET i == IndexOfChar(s, sep, 1)
  IN IF i = 0 THEN << s >>
     ELSE << SubSeq(s, 1, i - 1) >> \o split(SubSeq(s, i + 1, Len(s)), sep)

RECURSIVE join(_, _)
\* Array.prototype.join
join(parts, sep) ==
  IF parts = <<>> THEN <<>>
  ELSE IF Len(parts) = 1 THEN parts[1]
  ELSE parts[1] \o sep \o join(Tail(parts), sep)

RECURSIVE SelectNonEmpty(_)
\* filter(Boolean) on an array of strings
SelectNonEmpty(parts) ==
  IF parts = <<>> THEN <<>>
  ELSE IF Head(parts) = <<>> THEN SelectNonEmpty(Tail(parts))
  ELSE << Head(parts) >> \o SelectNonEmpty(Tail(parts))

(***************************************************************************)
(* ModuleScanner                                                           *)
(***************************************************************************)
ControllersKey == <<"c", "o", "n", "t", "r", "o", "l", "l", "e", "r", "s", ":">>
LineCommentStart == <<"/", "/">>
BlockOpen == <<"/", "*">>
BlockClose == <<"*", "/">>
ModuleSuffix == <<"M", "o", "d", "u", "l", "e">>
UnknownModule == <<"U", "n", "k", "n", "o", "w", "n", "M", "o", "d", "u", "l", "e">>
UpperCase == {"A", "B", "C", "D", "E", "F", "G", "H", "I", "J", "K", "L", "M", "N",
              "O", "P", "Q", "R", "S", "T", "U", "V", "W", "X", "Y", "Z"}

\* text.match(/controllers:\s*\[(.*?)\]/s): the captured group of the leftmost
\* match, as a sequence of length 0 (no match) or 1
SkipSpace(s, i) ==
  LET rest == {j \in i..Len(s) : s[j] \notin Whitespace}
  IN IF rest = {} THEN Len(s) + 1 ELSE CHOOSE j \in rest : \A k \in rest : j <= k

ControllersMatchAt(s, i) ==
  /\ StartsWithAt(s, ControllersKey, i)
  /\ LET b == SkipSpace(s, i + Len(ControllersKey))
     IN b <= Len(s) /\ s[b] = "[" /\ IndexOfChar(s, "]", b + 1) # 0

matchControllers(s) ==
  LET starts == {i \in 1..Len(s) : ControllersMatchAt(s, i)}
  IN IF starts = {} THEN <<>>
     ELSE LET i == CHOOSE x \in starts : \A y \in starts : x <= y
              b == SkipSpace(s, i + Len(ControllersKey))
          IN << SubSeq(s, b + 1, IndexOfChar(s, "]", b + 1) - 1) >>

\* the end of a block comment opened at i that closes on the same line, or 0
BlockEnd(s, i) ==
  LET ends == {j \in (i + 2)..(Len(s) - 1) :
                 /\ StartsWithAt(s, BlockClose, j)
                 /\ \A k \in (i + 2)..(j - 1) : s[k] # "\n"}
  IN IF ends = {} THEN 0 ELSE (CHOOSE j \in ends : \A k \in ends : j <= k) + 1

RECURSIVE stripBlockComments(_)
\* c.replace(/\/\*.*?\*\//g, '')
stripBlockComments(s) ==
  IF s = <<>> THEN <<>>
  ELSE IF StartsWithAt(s, BlockOpen, 1) /\ BlockEnd(s, 1) # 0
       THEN stripBlockComments(SubSeq(s, BlockEnd(s, 1) + 1, Len(s)))
       ELSE << Head(s) >> \o stripBlockComments(Tail(s))

RECURSIVE KeepControllerItems(_)
\* .filter(c => c && !c.startsWith('//'))
KeepControllerItems(items) ==
  IF items = <<>> THEN <<>>
  ELSE IF Head(items) # <<>> /\ ~startsWith(Head(items), LineCommentStart)
       THEN << Head(items) >> \o KeepControllerItems(Tail(items))
       ELSE KeepControllerItems(Tail(items))

\* extractControllers(decorator): the controller names of a @Module decorator
extractControllers(decorator) ==
  IF decorator.args = <<>> THEN <<>>
  ELSE LET controllersMatch == matchControllers(decorator.args[1])
       IN IF controllersMatch = <<>> THEN <<>>
          ELSE LET raw == split(controllersMatch[1], ",")
                   trimmed == [i \in 1..Len(raw) |-> trim(raw[i])]
                   kept == KeepControllerItems(trimmed)
               IN [i \in 1..Len(kept) |-> trim(stripBlockComments(kept[i]))]

\* findModuleDecorator: decorators.find(dec => dec.getName() === 'Module')
findModuleDecorator(classDeclaration) ==
  LET ds == classDeclaration.decorators
      hits == {i \in 1..Len(ds) : ds[i].name = "Module"}
  IN IF hits = {} THEN <<>> ELSE << ds[CHOOSE i \in hits : \A j \in hits : i <= j] >>

\* extractModuleInfo
extractModuleInfo(classDeclaration, moduleDecorator, sourceFile) ==
  [name |-> IF classDeclaration.name = <<>> THEN UnknownModule ELSE classDeclaration.name,
   filePath |-> sourceFile.path,
   controllers |-> extractControllers(moduleDecorator)]

RECURSIVE ModulesOfClasses(_, _)
ModulesOfClasses(classes, sourceFile) ==
  IF classes = <<>> THEN <<>>
  ELSE LET moduleDecorator == findModuleDecorator(Head(classes))
       IN (IF moduleDecorator # <<>>
           THEN << extractModuleInfo(Head(classes), moduleDecorator[1], sourceFile) >>
           ELSE <<>>) \o ModulesOfClasses(Tail(classes), sourceFile)

\* extractModulesFromFile
extractModulesFromFile(sourceFile) == ModulesOfClasses(sourceFile.classes, sourceFile)

RECURSIVE splitCapitals(_)
\* name.split(/(?=[A-Z])/): a new part starts before every capital letter
splitCapitals(name) ==
  IF name = <<>> THEN << <<>> >>
  ELSE LET cuts == {i \in 2..Len(name) : name[i] \in UpperCase}
       IN IF cuts = {} THEN << name >>
          ELSE LET i == CHOOSE x \in cuts : \A y \in cuts : x <= y
               IN << SubSeq(name, 1, i - 1) >> \o splitCapitals(SubSeq(name, i, Len(name)))

\* as formatModuleName, but every trailing 'Module' is removed
RECURSIVE formatModuleName_AllSuffixes(_)
formatModuleName_AllSuffixes(moduleName) ==
  IF endsWith(moduleName, ModuleSuffix)
  THEN formatModuleName_AllSuffixes(SubSeq(moduleName, 1, Len(moduleName) - Len(ModuleSuffix)))
  ELSE join(SelectNonEmpty(splitCapitals(moduleName)), <<" ">>)

\* formatModuleName
formatModuleName(moduleName) ==
  LET name == IF endsWith(moduleName, ModuleSuffix)
              THEN SubSeq(moduleName, 1, Len(moduleName) - Len(ModuleSuffix))
              ELSE moduleName
      parts == SelectNonEmpty(splitCapitals(name))
  IN join(parts, <<" ">>)

\* a lookup result: null, or a string
Null == [isNull |-> TRUE, s |-> <<>>]
Some(s) == [isNull |-> FALSE, s |-> s]

arrayIncludes(list, x) == \E i \in 1..Len(list) : list[i] = x

RECURSIVE FirstModuleWith(_, _)
FirstModuleWith(modules, controllerName) ==
  IF modules = <<>> THEN Null
  ELSE IF arrayIncludes(Head(modules).controllers, controllerName)
       THEN Some(formatModuleName(Head(modules).name))
       ELSE FirstModuleWith(Tail(modules), controllerName)

RECURSIVE findModuleForController(_, _)
\* findModuleForController(controllerName, sourceFiles)
findModuleForController(controllerName, files) ==
  IF files = <<>> THEN Null
  ELSE LET found == FirstModuleWith(extractModulesFromFile(Head(files)), controllerName)
       IN IF ~found.isNull THEN found
          ELSE findModuleForController(controllerName, Tail(files))

(***************************************************************************)
(* Category resolution (ControllerScanner)                                 *)
(***************************************************************************)
LowerLetters == <<"a", "b", "c", "d", "e", "f", "g", "h", "i", "j", "k", "l", "m",
                  "n", "o", "p", "q", "r", "s", "t", "u", "v", "w", "x", "y", "z">>
UpperLetters == <<"A", "B", "C", "D", "E", "F", "G", "H", "I", "J", "K", "L", "M",
                  "N", "O", "P", "Q", "R", "S", "T", "U", "V", "W", "X", "Y", "Z">>
Digits == {"0", "1", "2", "3", "4", "5", "6", "7", "8", "9"}

toUpperCase(c) ==
  IF \E i \in 1..26 : LowerLetters[i] = c
  THEN UpperLetters[CHOOSE i \in 1..26 : LowerLetters[i] = c]
  ELSE c

\* word.charAt(0).toUpperCase() + word.slice(1)
capitalize(word) == IF word = <<>> THEN <<>> ELSE << toUpperCase(Head(word)) >> \o Tail(word)

\* humanize: split on '-', capitalize each word, join with a space
humanize(segment) ==
  LET words == split(segment, "-")
  IN join([i \in 1..Len(words) |-> capitalize(words[i])], <<" ">>)

Uncategorized == <<"U", "n", "c", "a", "t", "e", "g", "o", "r", "i", "z", "e", "d">>
ControllerQualifier == <<".", "c", "o", "n", "t", "r", "o", "l", "l", "e", "r", ".", "t", "s">>
TsExtension == <<".", "t", "s">>
NonInformative == {<<"s", "r", "c">>, <<"a", "p", "i">>, <<"c", "o", "n", "t", "r", "o", "l", "l", "e", "r", "s">>}

\* 'v' followed by one or more digits
IsVersionTag(seg) ==
  /\ Len(seg) >= 2 /\ seg[1] = "v"
  /\ \A i \in 2..Len(seg) : seg[i] \in Digits

\* the file name without its .controller.ts / .ts qualifiers
fileStem(fileName) ==
  IF endsWith(fileName, ControllerQualifier)
  THEN SubSeq(fileName, 1, Len(fileName) - Len(ControllerQualifier))
  ELSE IF endsWith(fileName, TsExtension)
  THEN SubSeq(fileName, 1, Len(fileName) - Len(TsExtension))
  ELSE fileName

RECURSIVE dropNonInformative(_)
dropNonInformative(segs) ==
  IF segs = <<>> THEN <<>>
  ELSE IF Head(segs) \in NonInformative \/ IsVersionTag(Head(segs))
       THEN dropNonInformative(Tail(segs))
       ELSE << Head(segs) >> \o dropNonInformative(Tail(segs))

RECURSIVE dedupeConsecutive(_)
dedupeConsecutive(segs) ==
  IF Len(segs) < 2 THEN segs
  ELSE IF segs[1] = segs[2] THEN dedupeConsecutive(Tail(segs))
  ELSE << Head(segs) >> \o dedupeConsecutive(Tail(segs))

\* as detectCategoryFromPath, but every repeated segment is dropped, not only
\* one that repeats its predecessor
detectCategoryFromPath_DedupeAll(filePath) ==
  LET normal == [i \in 1..Len(filePath) |-> IF filePath[i] = "\\" THEN "/" ELSE filePath[i]]
      segs == SelectNonEmpty(split(normal, "/"))
  IN IF segs = <<>> THEN Uncategorized
     ELSE LET stem == fileStem(Last(segs))
              dirs == dropNonInformative(SubSeq(segs, 1, Len(segs) - 1))
              all == SelectNonEmpty(dirs \o << stem >>)
              first == {i \in 1..Len(all) : \A j \in 1..(i - 1) : all[j] # all[i]}
              parts == [k \in 1..Cardinality(first) |->
                          all[CHOOSE i \in first : Cardinality({j \in first : j <= i}) = k]]
          IN IF parts = <<>> THEN Uncategorized
             ELSE join([i \in 1..Len(parts) |-> humanize(parts[i])], <<" ", "-", " ">>)

\* detectCategoryFromPath(filePath)
detectCategoryFromPath(filePath) ==
  LET normal == [i \in 1..Len(filePath) |-> IF filePath[i] = "\\" THEN "/" ELSE filePath[i]]
      segs == SelectNonEmpty(split(normal, "/"))
  IN IF segs = <<>> THEN Uncategorized
     ELSE LET stem == fileStem(Last(segs))
              dirs == dropNonInformative(SubSeq(segs, 1, Len(segs) - 1))
              parts == dedupeConsecutive(SelectNonEmpty(dirs \o << stem >>))
          IN IF parts = <<>> THEN Uncategorized
             ELSE join([i \in 1..Len(parts) |-> humanize(parts[i])], <<" ", "-", " ">>)

\* sourceFiles.find(sf => sf.getClasses().some(c => c.getName() === controllerName))
findSourceFileOfClass(files, controllerName) ==
  LET hits == {i \in 1..Len(files) :
                 \E j \in 1..Len(files[i].classes) : files[i].classes[j].name = controllerName}
  IN IF hits = {} THEN <<>> ELSE << files[CHOOSE i \in hits : \A k \in hits : i <= k] >>

\* detectCategoryFromModule(controllerName)
detectCategoryFromModule(controllerName, files) ==
  LET category == findModuleForController(controllerName, files)
  IN IF category.isNull \/ category.s = <<>>
     THEN LET sourceFile == findSourceFileOfClass(files, controllerName)
          IN IF sourceFile # <<>> THEN detectCategoryFromPath(sourceFile[1].path)
             ELSE Uncategorized
     ELSE category.s

(***************************************************************************)
(* The projects scanned                                                    *)
(***************************************************************************)
MaxItems == 2   \* entries of the first module's controllers array

AdminController == <<"A", "d", "m", "i", "n", "C", "t", "l">>
UserController == <<"U", "s", "e", "r", "C", "t", "l">>
ControllerNames == {AdminController, UserController}

\* one entry of a controllers array as written in the source: the identifier
\* it declares (none for a trailing comma) and the comment around it
Entry(id, comment) == [id |-> id, comment |-> comment]
Entries ==
  {Entry(<< c >>, "none") : c \in ControllerNames}
    \cup {Entry(<< AdminController >>, k) : k \in {"lineBefore", "blockBefore", "lineAfter"}}
    \cup {Entry(<<>>, "none")}

LineComment == <<"/", "/", " ", "x">>
BlockComment == <<"/", "*", " ", "x", " ", "*", "/">>

\* the source text of an entry
RenderEntry(e) ==
  LET idText == IF e.id = <<>> THEN <<>> ELSE e.id[1]
  IN CASE e.comment = "lineBefore"  -> <<"\n">> \o LineComment \o <<"\n">> \o idText
       [] e.comment = "blockBefore" -> <<" ">> \o BlockComment \o <<" ">> \o idText
       [] e.comment = "lineAfter"   -> <<"\n">> \o idText \o <<" ">> \o LineComment \o <<"\n">>
       [] OTHER -> IF idText = <<>> THEN <<>> ELSE <<" ">> \o idText

\* the object literal handed to @Module: with a controllers array, or without
RenderModuleArg(entries) ==
  <<"{">> \o ControllersKey \o <<" ", "[">>
    \o join([i \in 1..Len(entries) |-> RenderEntry(entries[i])], <<",">>)
    \o <<"]", ",", "p", ":", "[", "]", "}">>

NoControllersArg == <<"{", "p", ":", "[", "]", "}">>

\* a class declaration: its name, its decorators, and (for the claims) the
\* controllers its @Module decorator declares
ModuleClass(name, entries) ==
  [name |-> name,
   decorators |-> << [name |-> "Injectable", args |-> <<>>],
                     [name |-> "Module", args |-> << RenderModuleArg(entries) >>] >>,
   declares |-> {entries[i].id[1] : i \in {j \in 1..Len(entries) : entries[j].id # <<>>}}]

ModuleClassWithout(name, args) ==
  [name |-> name, decorators |-> << [name |-> "Module", args |-> args] >>, declares |-> {}]

ControllerClass(name) ==
  [name |-> name, decorators |-> << [name |-> "Controller", args |-> <<>>] >>, declares |-> {}]

SourceFile(path, classes) == [path |-> path, classes |-> classes]

FirstModuleNames == {<<"A", "d", "m", "i", "n", "A", "u", "t", "h", "M", "o", "d", "u", "l", "e">>, <<"A", "d", "m", "i", "n">>}
SecondModuleName == <<"U", "s", "e", "r", "M", "o", "d", "u", "l", "e">>

FirstModules ==
  {ModuleClass(n, es) : n \in FirstModuleNames, es \in SeqsUpTo(Entries, MaxItems)}
    \cup {ModuleClassWithout(n, a) : n \in FirstModuleNames, a \in {<<>>, << NoControllersArg >>}}

SecondModules ==
  {ModuleClass(SecondModuleName, es) :
     es \in {<<>>, << Entry(<< AdminController >>, "none") >>,
             << Entry(<< UserController >>, "none") >>}}
    \cup {ModuleClassWithout(SecondModuleName, << NoControllersArg >>)}

AdminControllerFile == SourceFile(<<"s", "r", "c", "/", "a", "p", "i", "/", "v", "1", "/", "a", "d", "m", "i", "n", "/", "a", "u", "t", "h", "/", "a", "u", "t", "h", ".", "c", "o", "n", "t", "r", "o", "l", "l", "e", "r", ".", "t", "s">>, << ControllerClass(AdminController) >>)
UserControllerFile == SourceFile(<<"s", "r", "c", "/", "u", "s", "e", "r", "-", "p", "r", "o", "f", "i", "l", "e", "/", "c", "o", "n", "t", "r", "o", "l", "l", "e", "r", "s", "/", "u", "s", "e", "r", ".", "c", "o", "n", "t", "r", "o", "l", "l", "e", "r", ".", "t", "s">>, << ControllerClass(UserController) >>)

\* the projects: the controller files, then the two modules in one file or in two
Projects ==
  {ctl \o mods :
     ctl \in {<< AdminControllerFile >>, << AdminControllerFile, UserControllerFile >>},
     mods \in UNION {
        {<< SourceFile(<<"s", "r", "c", "/", "a", "p", "p", ".", "m", "o", "d", "u", "l", "e", ".", "t", "s">>, << m1, m2 >>) >>,
         << SourceFile(<<"s", "r", "c", "/", "a", "d", "m", "i", "n", "/", "a", "d", "m", "i", "n", ".", "m", "o", "d", "u", "l", "e", ".", "t", "s">>, << m1 >>), SourceFile(<<"s", "r", "c", "/", "u", "s", "e", "r", "/", "u", "s", "e", "r", ".", "m", "o", "d", "u", "l", "e", ".", "t", "s">>, << m2 >>) >>} :
        m1 \in FirstModules, m2 \in SecondModules}}

InitScan == sourceFiles \in Projects /\ ScanStart /\ OthersIdleScan

\* moduleScanner.findModuleForController(controllerName, sourceFiles)
FindModuleForController(controllerName) ==
  /\ scanCall' = [op |-> "findModuleForController", name |-> controllerName]
  /\ scanResult' = << findModuleForController(controllerName, sourceFiles) >>
  /\ UNCHANGED <<sourceFiles, otherThanScan>>

\* controllerScanner.detectCategoryFromModule(controllerName)
DetectCategoryFromModule(controllerName) ==
  /\ scanCall' = [op |-> "detectCategoryFromModule", name |-> controllerName]
  /\ scanResult' = << Some(detectCategoryFromModule(controllerName, sourceFiles)) >>
  /\ UNCHANGED <<sourceFiles, otherThanScan>>

NextScan ==
  \/ \E c \in ControllerNames : FindModuleForController(c)
  \/ \E c \in ControllerNames : DetectCategoryFromModule(c)

SpecScan == InitScan /\ [][NextScan]_vars

(***************************************************************************)
(* Claims about the module scanner and category resolution                 *)
(***************************************************************************)
\* every class carrying a @Module decorator, in source-file order and then
\* in declaration order within the file
RECURSIVE DeclaredModules(_)
DeclaredModules(files) ==
  IF files = <<>> THEN <<>>
  ELSE SelectSeq(Head(files).classes,
                 LAMBDA c : \E i \in 1..Len(c.decorators) : c.decorators[i].name = "Module")
         \o DeclaredModules(Tail(files))

\* the indexes of the modules whose controllers array declares the controller
Declaring(controllerName) ==
  {i \in 1..Len(DeclaredModules(sourceFiles)) :
     controllerName \in DeclaredModules(sourceFiles)[i].declares}

FirstDeclaring(controllerName) ==
  DeclaredModules(sourceFiles)[CHOOSE i \in Declaring(controllerName) :
                                 \A j \in Declaring(controllerName) : i <= j]

\* C5: findModuleForController returns the formatted name of the first module,
\* in source-file order and then declaration order, whose declared controllers
\* list contains the name, and null when no module lists it.
C5_FirstDeclaringModule ==
  scanCall.op = "findModuleForController" =>
    scanResult[1] = IF Declaring(scanCall.name) = {} THEN Null
                    ELSE Some(formatModuleName(FirstDeclaring(scanCall.name).name))

\* C6: the category is the group-based label whenever some module declares
\* the controller; otherwise the path-derived label of the controller's source
\* file; and Uncategorized only when neither yields a label.
C6_CategoryFallbackChain ==
  scanCall.op = "detectCategoryFromModule" =>
    LET file == findSourceFileOfClass(sourceFiles, scanCall.name)
    IN scanResult[1].s =
         IF Declaring(scanCall.name) # {}
         THEN formatModuleName(FirstDeclaring(scanCall.name).name)
         ELSE IF file # <<>> THEN detectCategoryFromPath(file[1].path)
         ELSE Uncategorized

(***************************************************************************)
(* Path utilities                                                          *)
(***************************************************************************)
RECURSIVE stripLeadingSlashes(_)
stripLeadingSlashes(s) ==
  IF s # <<>> /\ Head(s) = "/" THEN stripLeadingSlashes(Tail(s)) ELSE s

RECURSIVE stripTrailingSlashes(_)
stripTrailingSlashes(s) ==
  IF s # <<>> /\ Last(s) = "/" THEN stripTrailingSlashes(SubSeq(s, 1, Len(s) - 1)) ELSE s

\* segment.replace(/^\/+|\/+$/g, '')
stripSlashes(segment) == stripTrailingSlashes(stripLeadingSlashes(segment))

\* as combinePaths, but a segment that is empty once stripped is kept
combinePaths_NoSecondFilter(segments) ==
  LET given == SelectNonEmpty(segments)
      stripped == [i \in 1..Len(given) |-> stripSlashes(given[i])]
  IN join(stripped, <<"/">>)

\* segments.filter(Boolean).map(strip).filter(Boolean).join('/')
combinePaths(segments) ==
  LET given == SelectNonEmpty(segments)
      stripped == [i \in 1..Len(given) |-> stripSlashes(given[i])]
  IN join(SelectNonEmpty(stripped), <<"/">>)

(***************************************************************************)
(* OpenApiGenerator: versioned paths and server entries.  An optional      *)
(* string is a sequence of length 0 (not set) or 1.                        *)
(***************************************************************************)
\* VersioningConfig.prefix, @default '/api'
DefaultVersionPrefix == <<"/", "a", "p", "i">>

\* a || b on an optional string
OrElse(opt, default) == IF opt # <<>> /\ opt[1] # <<>> THEN opt[1] ELSE default

\* options.versioning?.enabled
versioningEnabled(options) ==
  options.versioning # <<>> /\ options.versioning[1].enabled

versionPrefix(options) ==
  IF options.versioning = <<>> THEN DefaultVersionPrefix
  ELSE OrElse(options.versioning[1].prefix, DefaultVersionPrefix)

\* as getPathPrefix, but a detected version is used whether or not
\* versioning is enabled
getPathPrefix_IgnoreEnabled(controller, options) ==
  IF controller.version # <<>>
  THEN versionPrefix(options) \o <<"/">> \o controller.version[1]
  ELSE IF versioningEnabled(options)
  THEN OrElse(options.versioning[1].fallback, OrElse(options.globalPrefix, <<>>))
  ELSE OrElse(options.globalPrefix, <<>>)

\* as getPathPrefix, but a controller without a version gets the global
\* prefix even when a fallback is configured
getPathPrefix_NoFallback(controller, options) ==
  IF versioningEnabled(options) /\ controller.version # <<>>
  THEN versionPrefix(options) \o <<"/">> \o controller.version[1]
  ELSE OrElse(options.globalPrefix, <<>>)

\* the prefix under which the routes of a controller are mounted
getPathPrefix(controller, options) ==
  IF versioningEnabled(options)
  THEN IF controller.version # <<>>
       THEN versionPrefix(options) \o <<"/">> \o controller.version[1]
       ELSE OrElse(options.versioning[1].fallback, OrElse(options.globalPrefix, <<>>))
  ELSE OrElse(options.globalPrefix, <<>>)

\* paths[key][method] = operation: a later write to the same key and method
\* replaces the earlier one
putPath(paths, key, method, operation) ==
  LET entry == [key |-> key, method |-> method, operation |-> operation]
      hit == {i \in 1..Len(paths) : paths[i].key = key /\ paths[i].method = method}
  IN IF hit = {} THEN Append(paths, entry)
     ELSE [i \in 1..Len(paths) |-> IF i \in hit THEN entry ELSE paths[i]]

RECURSIVE addRoutes(_, _, _, _)
addRoutes(paths, controller, routes, options) ==
  IF routes = <<>> THEN paths
  ELSE LET route == Head(routes)
           key == combinePaths(<<getPathPrefix(controller, options), route.fullPath>>)
           operation == [controller |-> controller.name, route |-> route.name]
       IN addRoutes(putPath(paths, key, route.httpMethod, operation),
                    controller, Tail(routes), options)

RECURSIVE generatePaths(_, _, _)
generatePaths(paths, controllers, options) ==
  IF controllers = <<>> THEN paths
  ELSE generatePaths(addRoutes(paths, Head(controllers), Head(controllers).routes, options),
                     Tail(controllers), options)

RECURSIVE detectedVersions(_, _)
\* the detected versions, each once, in order of first appearance
detectedVersions(controllers, seen) ==
  IF controllers = <<>> THEN <<>>
  ELSE LET c == Head(controllers)
       IN IF c.version # <<>> /\ ~arrayIncludes(seen, c.version[1])
          THEN << c.version[1] >>
               \o detectedVersions(Tail(controllers), Append(seen, c.version[1]))
          ELSE detectedVersions(Tail(controllers), seen)

RECURSIVE controllerVersions(_)
\* the detected version of every versioned controller, repeats included
controllerVersions(controllers) ==
  IF controllers = <<>> THEN <<>>
  ELSE Head(controllers).version \o controllerVersions(Tail(controllers))

toUpperCaseText(s) == [i \in 1..Len(s) |-> toUpperCase(s[i])]

versionServer(options, version) ==
  [url |-> versionPrefix(options) \o <<"/">> \o version,
   description |-> <<"A", "P", "I", " ">> \o toUpperCaseText(version)]

\* as generateServers, but one entry per versioned controller
generateServers_PerController(controllers, options) ==
  IF versioningEnabled(options)
  THEN LET versions == controllerVersions(controllers)
       IN [i \in 1..Len(versions) |-> versionServer(options, versions[i])]
  ELSE << [url |-> OrElse(options.globalPrefix, <<"/">>), description |-> <<>>] >>

generateServers(controllers, options) ==
  IF versioningEnabled(options)
  THEN LET versions == detectedVersions(controllers, <<>>)
       IN [i \in 1..Len(versions) |-> versionServer(options, versions[i])]
  ELSE << [url |-> OrElse(options.globalPrefix, <<"/">>), description |-> <<>>] >>

generate(controllers, options) ==
  [paths |-> generatePaths(<<>>, controllers, options),
   servers |-> generateServers(controllers, options)]

(***************************************************************************)
(* Generator inputs: controller descriptors and options                    *)
(***************************************************************************)
MaxControllers == 3   \* controllers handed to one generate call

V1 == <<"v", "1">>
V2 == <<"v", "2">>
AdminProfilePath == <<"/", "a", "d", "m", "i", "n", "/", "p", "r", "o", "f", "i", "l", "e">>
HealthPath == <<"/", "h", "e", "a", "l", "t", "h">>
FullPaths == {AdminProfilePath, HealthPath}

ControllerMetadata(version, fullPath) ==
  [name |-> IF fullPath = HealthPath THEN "HealthController" ELSE "AdminController",
   version |-> version,
   routes |-> << [name |-> IF fullPath = HealthPath THEN "check" ELSE "getProfile",
                  httpMethod |-> "get", fullPath |-> fullPath] >>]

ControllerTemplates ==
  {ControllerMetadata(v, p) : v \in {<<>>, << V1 >>, << V2 >>}, p \in FullPaths}

ControllerLists == SeqsUpTo(ControllerTemplates, MaxControllers)

VersioningConfigs ==
  {<<>>} \cup
  { << [enabled |-> e, prefix |-> p, fallback |-> f] >> :
      e \in BOOLEAN, p \in {<<>>, << <<"/", "a", "p", "i">> >>, << <<"s", "v", "c">> >>},
      f \in {<<>>, << <<"/", "a", "p", "i", "/", "v", "1">> >>} }

GenOptions ==
  {[globalPrefix |-> g, versioning |-> v] :
     g \in {<<>>, << <<"/", "a", "p", "i", "/", "v", "1">> >>}, v \in VersioningConfigs}

(***************************************************************************)
(* State machine of the generator                                          *)
(***************************************************************************)
GenInputs ==
  {[controllers |-> c, options |-> o] : c \in ControllerLists, o \in GenOptions}

InitGen ==
  /\ genInput \in {<< i >> : i \in GenInputs}
  /\ genResult = <<>>
  /\ OthersIdleGen

Generate ==
  /\ genInput # <<>>
  /\ genResult' = << generate(genInput[1].controllers, genInput[1].options) >>
  /\ UNCHANGED <<genInput, otherThanGen>>

NextGen == Generate

SpecGen == InitGen /\ [][NextGen]_vars

(***************************************************************************)
(* Claims about the generator                                              *)
(***************************************************************************)
Generated == genResult # <<>>
TheControllers == genInput[1].controllers
TheOptions == genInput[1].options
TheDocument == genResult[1]

\* the non-empty segments of a path
Segs(path) == SelectNonEmpty(split(path, "/"))

EndsWithSegs(path, tail) ==
  LET s == Segs(path)
  IN Len(s) >= Len(tail) /\ SubSeq(s, Len(s) - Len(tail) + 1, Len(s)) = tail

PathKeys == {TheDocument.paths[i].key : i \in 1..Len(TheDocument.paths)}

\* every route of the input, with its controller
RoutesOf ==
  UNION {{<<i, r>> : r \in 1..Len(TheControllers[i].routes)} : i \in 1..Len(TheControllers)}

FullPathOf(ir) == TheControllers[ir[1]].routes[ir[2]].fullPath
VersionOf(ir) == TheControllers[ir[1]].version

ResolvedVersions ==
  {TheControllers[i].version[1] :
     i \in {j \in 1..Len(TheControllers) : TheControllers[j].version # <<>>}}

VersioningOn == TheOptions.versioning # <<>> /\ TheOptions.versioning[1].enabled

ConfiguredPrefix ==
  IF TheOptions.versioning[1].prefix = <<>> THEN DefaultVersionPrefix
  ELSE TheOptions.versioning[1].prefix[1]

\* C7: with versioning enabled, routes at the same logical path under
\* different versions get distinct path keys, and the server list has exactly
\* one entry per distinct resolved version, not one per controller.
C7_DistinctKeysOneServerPerVersion ==
  (Generated /\ VersioningOn) =>
    /\ \A a \in RoutesOf, b \in RoutesOf :
         (/\ VersionOf(a) # <<>> /\ VersionOf(b) # <<>>
          /\ VersionOf(a) # VersionOf(b)
          /\ Segs(FullPathOf(a)) = Segs(FullPathOf(b)))
         => \E ka \in PathKeys, kb \in PathKeys :
              /\ ka # kb
              /\ EndsWithSegs(ka, VersionOf(a) \o Segs(FullPathOf(a)))
              /\ EndsWithSegs(kb, VersionOf(b) \o Segs(FullPathOf(b)))
    /\ Len(TheDocument.servers) = Cardinality(ResolvedVersions)
    /\ \A v \in ResolvedVersions :
         Cardinality({s \in 1..Len(TheDocument.servers) :
                        EndsWithSegs(TheDocument.servers[s].url, << v >>)}) = 1

\* controllers at v1, v2 and v2, two of them at the same logical path under
\* different versions, gave two server entries
C7_Witness ==
  /\ Generated /\ VersioningOn
  /\ Len(TheControllers) = 3
  /\ TheControllers[1].version = << V1 >>
  /\ TheControllers[2].version = << V2 >>
  /\ TheControllers[3].version = << V2 >>
  /\ FullPathOf(<<1, 1>>) = FullPathOf(<<2, 1>>)
  /\ Len(TheDocument.servers) = 2
  /\ Cardinality(PathKeys) >= 2

GlobalPrefixSegs ==
  IF TheOptions.globalPrefix = <<>> THEN <<>> ELSE Segs(TheOptions.globalPrefix[1])

C9_VersionedKeysAndServerEntries ==
  (Generated /\ VersioningOn) =>
    /\ \A ir \in RoutesOf :
         VersionOf(ir) # <<>> =>
           join(Segs(ConfiguredPrefix) \o VersionOf(ir) \o Segs(FullPathOf(ir)), <<"/">>)
             \in PathKeys
    /\ \A ir \in RoutesOf :
         (VersionOf(ir) = <<>> /\ TheOptions.versioning[1].fallback # <<>>) =>
           join(Segs(TheOptions.versioning[1].fallback[1]) \o Segs(FullPathOf(ir)), <<"/">>)
             \in PathKeys
    /\ \A k \in PathKeys : k = <<>> \/ Head(k) # "/"
    /\ \A v \in ResolvedVersions :
         \E s \in 1..Len(TheDocument.servers) :
           /\ TheDocument.servers[s].url = ConfiguredPrefix \o <<"/">> \o v
           /\ TheDocument.servers[s].description =
                <<"A", "P", "I", " ">> \o [i \in 1..Len(v) |-> toUpperCase(v[i])]

\* a versioned and an unversioned controller were generated with a custom
\* prefix and a fallback configured
C9_Witness ==
  /\ Generated /\ VersioningOn
  /\ TheOptions.versioning[1].prefix = << <<"s", "v", "c">> >>
  /\ TheOptions.versioning[1].fallback # <<>>
  /\ \E a \in RoutesOf, b \in RoutesOf : VersionOf(a) = << V1 >> /\ VersionOf(b) = <<>>
  /\ <<"s", "v", "c", "/", "v", "1", "/", "a", "d", "m", "i", "n", "/", "p", "r", "o", "f", "i", "l", "e">> \in PathKeys
  /\ <<"a", "p", "i", "/", "v", "1", "/", "h", "e", "a", "l", "t", "h">> \in PathKeys

(***************************************************************************)
(* ExampleGenerator.  An example value is a string, a number (kept as its  *)
(* literal), a boolean, null, an array or an object.                       *)
(***************************************************************************)
ExampleValue(k, v, items, fields) == [k |-> k, v |-> v, items |-> items, fields |-> fields]
StrV(s) == ExampleValue("string", s, <<>>, <<>>)
NumV(literal) == ExampleValue("number", literal, <<>>, <<>>)
BoolV(literal) == ExampleValue("boolean", literal, <<>>, <<>>)
NullV == ExampleValue("null", <<>>, <<>>, <<>>)
ArrayV(items) == ExampleValue("array", <<>>, items, <<>>)
ObjectV(fields) == ExampleValue("object", <<>>, <<>>, fields)

toLowerCase(c) ==
  IF \E i \in 1..26 : UpperLetters[i] = c
  THEN LowerLetters[CHOOSE i \in 1..26 : UpperLetters[i] = c]
  ELSE c

toLowerCaseText(s) == [i \in 1..Len(s) |-> toLowerCase(s[i])]

\* String.prototype.includes
includesText(s, sub) == \E i \in 1..(Len(s) + 1) : StartsWithAt(s, sub, i)

\* the field-name heuristics of generatePrimitiveExample, in source order
exampleFromFieldName(lowerName) ==
  IF includesText(lowerName, <<"e", "m", "a", "i", "l">>) THEN << StrV(<<"u", "s", "e", "r", "@", "e", "x", "a", "m", "p", "l", "e", ".", "c", "o", "m">>) >>
  ELSE IF includesText(lowerName, <<"f", "i", "r", "s", "t", "n", "a", "m", "e">>) \/ lowerName = <<"f", "i", "r", "s", "t", "_", "n", "a", "m", "e">>
  THEN << StrV(<<"J", "o", "h", "n">>) >>
  ELSE IF includesText(lowerName, <<"l", "a", "s", "t", "n", "a", "m", "e">>) \/ lowerName = <<"l", "a", "s", "t", "_", "n", "a", "m", "e">>
  THEN << StrV(<<"D", "o", "e">>) >>
  ELSE IF includesText(lowerName, <<"n", "a", "m", "e">>) /\ ~includesText(lowerName, <<"u", "s", "e", "r", "n", "a", "m", "e">>)
  THEN << StrV(<<"E", "x", "a", "m", "p", "l", "e", " ", "N", "a", "m", "e">>) >>
  ELSE IF includesText(lowerName, <<"u", "s", "e", "r", "n", "a", "m", "e">>) THEN << StrV(<<"j", "o", "h", "n", "d", "o", "e">>) >>
  ELSE IF includesText(lowerName, <<"p", "h", "o", "n", "e">>) \/ includesText(lowerName, <<"m", "o", "b", "i", "l", "e">>)
  THEN << StrV(<<"+", "1", "2", "3", "4", "5", "6", "7", "8", "9", "0">>) >>
  ELSE IF includesText(lowerName, <<"a", "d", "d", "r", "e", "s", "s">>) THEN << StrV(<<"1", "2", "3", " ", "M", "a", "i", "n", " ", "S", "t">>) >>
  ELSE IF includesText(lowerName, <<"c", "i", "t", "y">>) THEN << StrV(<<"N", "e", "w", " ", "Y", "o", "r", "k">>) >>
  ELSE IF includesText(lowerName, <<"c", "o", "u", "n", "t", "r", "y">>) THEN << StrV(<<"U", "S", "A">>) >>
  ELSE IF includesText(lowerName, <<"z", "i", "p">>) \/ includesText(lowerName, <<"p", "o", "s", "t", "a", "l">>)
  THEN << StrV(<<"1", "0", "0", "0", "1">>) >>
  ELSE IF includesText(lowerName, <<"u", "r", "l">>) \/ includesText(lowerName, <<"w", "e", "b", "s", "i", "t", "e">>)
  THEN << StrV(<<"h", "t", "t", "p", "s", ":", "/", "/", "e", "x", "a", "m", "p", "l", "e", ".", "c", "o", "m">>) >>
  ELSE IF endsWith(lowerName, <<"i", "d">>) \/ includesText(lowerName, <<"_", "i", "d">>)
  THEN << NumV(<<"1">>) >>
  ELSE IF includesText(lowerName, <<"d", "a", "t", "e">>) /\ ~includesText(lowerName, <<"u", "p", "d", "a", "t", "e">>)
  THEN << StrV(<<"2", "0", "2", "6", "-", "0", "1", "-", "1", "9">>) >>
  ELSE IF includesText(lowerName, <<"c", "r", "e", "a", "t", "e", "d", "a", "t">>) THEN << StrV(<<"2", "0", "2", "6", "-", "0", "1", "-", "1", "9", "T", "1", "2", ":", "0", "0", ":", "0", "0", "Z">>) >>
  ELSE IF includesText(lowerName, <<"u", "p", "d", "a", "t", "e", "d", "a", "t">>) THEN << StrV(<<"2", "0", "2", "6", "-", "0", "1", "-", "1", "9", "T", "1", "2", ":", "0", "0", ":", "0", "0", "Z">>) >>
  ELSE IF includesText(lowerName, <<"s", "t", "a", "t", "u", "s">>) THEN << StrV(<<"a", "c", "t", "i", "v", "e">>) >>
  ELSE IF includesText(lowerName, <<"r", "o", "l", "e">>) THEN << StrV(<<"u", "s", "e", "r">>) >>
  ELSE IF includesText(lowerName, <<"d", "e", "s", "c", "r", "i", "p", "t", "i", "o", "n">>) \/ includesText(lowerName, <<"d", "e", "s", "c">>)
  THEN << StrV(<<"E", "x", "a", "m", "p", "l", "e", " ", "d", "e", "s", "c", "r", "i", "p", "t", "i", "o", "n">>) >>
  ELSE IF includesText(lowerName, <<"t", "i", "t", "l", "e">>) THEN << StrV(<<"E", "x", "a", "m", "p", "l", "e", " ", "T", "i", "t", "l", "e">>) >>
  ELSE IF includesText(lowerName, <<"p", "r", "i", "c", "e">>) \/ includesText(lowerName, <<"a", "m", "o", "u", "n", "t">>)
  THEN << NumV(<<"9", "9", ".", "9", "9">>) >>
  ELSE IF includesText(lowerName, <<"q", "u", "a", "n", "t", "i", "t", "y">>) \/ includesText(lowerName, <<"c", "o", "u", "n", "t">>)
  THEN << NumV(<<"1", "0">>) >>
  ELSE IF includesText(lowerName, <<"i", "s">>) \/ includesText(lowerName, <<"h", "a", "s">>)
          \/ includesText(lowerName, <<"c", "a", "n">>)
  THEN << BoolV(<<"t", "r", "u", "e">>) >>
  ELSE <<>>

\* switch (format): the sample of a format, or nothing when no case matches
exampleFromFormat(format) ==
  CASE format = "email" -> << StrV(<<"u", "s", "e", "r", "@", "e", "x", "a", "m", "p", "l", "e", ".", "c", "o", "m">>) >>
    [] format \in {"uri", "url"} -> << StrV(<<"h", "t", "t", "p", "s", ":", "/", "/", "e", "x", "a", "m", "p", "l", "e", ".", "c", "o", "m">>) >>
    [] format = "uuid" -> << StrV(<<"1", "2", "3", "e", "4", "5", "6", "7", "-", "e", "8", "9", "b", "-", "1", "2", "d", "3", "-", "a", "4", "5", "6", "-", "4", "2", "6", "6", "1", "4", "1", "7", "4", "0", "0", "0">>) >>
    [] format = "date" -> << StrV(<<"2", "0", "2", "6", "-", "0", "1", "-", "1", "9">>) >>
    [] format = "date-time" -> << StrV(<<"2", "0", "2", "6", "-", "0", "1", "-", "1", "9", "T", "1", "2", ":", "0", "0", ":", "0", "0", "Z">>) >>
    [] format = "password" -> << StrV(<<"P", "@", "s", "s", "w", "0", "r", "d", "1", "2", "3">>) >>
    [] OTHER -> <<>>

\* switch (type)
exampleFromType(type) ==
  CASE type = <<"string">> -> StrV(<<"e", "x", "a", "m", "p", "l", "e">>)
    [] type = <<"number">> -> NumV(<<"4", "2">>)
    [] type = <<"integer">> -> NumV(<<"4", "2">>)
    [] type = <<"boolean">> -> BoolV(<<"t", "r", "u", "e">>)
    [] OTHER -> NullV

\* a truthy optional string: set and not ''
TruthyText(opt) == opt # <<>> /\ opt[1] # <<>>

\* as generatePrimitiveExample, with the type switch ahead of the field-name
\* heuristics
generatePrimitiveExample_TypeBeforeName(typeMetadata, fieldName) ==
  LET byFormat == IF typeMetadata.format # <<>> /\ typeMetadata.format[1] # ""
                  THEN exampleFromFormat(typeMetadata.format[1]) ELSE <<>>
      byName == IF TruthyText(fieldName)
                THEN exampleFromFieldName(toLowerCaseText(fieldName[1])) ELSE <<>>
  IN IF byFormat # <<>> THEN byFormat[1]
     ELSE IF exampleFromType(typeMetadata.type) # NullV THEN exampleFromType(typeMetadata.type)
     ELSE IF byName # <<>> THEN byName[1]
     ELSE NullV

\* as generatePrimitiveExample, with the field-name heuristics ahead of the
\* format switch
generatePrimitiveExample_NameBeforeFormat(typeMetadata, fieldName) ==
  LET byFormat == IF typeMetadata.format # <<>> /\ typeMetadata.format[1] # ""
                  THEN exampleFromFormat(typeMetadata.format[1]) ELSE <<>>
      byName == IF TruthyText(fieldName)
                THEN exampleFromFieldName(toLowerCaseText(fieldName[1])) ELSE <<>>
  IN IF byName # <<>> THEN byName[1]
     ELSE IF byFormat # <<>> THEN byFormat[1]
     ELSE exampleFromType(typeMetadata.type)

generatePrimitiveExample(typeMetadata, fieldName) ==
  LET byFormat == IF typeMetadata.format # <<>> /\ typeMetadata.format[1] # ""
                  THEN exampleFromFormat(typeMetadata.format[1]) ELSE <<>>
      byName == IF TruthyText(fieldName)
                THEN exampleFromFieldName(toLowerCaseText(fieldName[1])) ELSE <<>>
  IN IF byFormat # <<>> THEN byFormat[1]
     ELSE IF byName # <<>> THEN byName[1]
     ELSE exampleFromType(typeMetadata.type)

RECURSIVE generateFromType(_, _)
RECURSIVE generateObjectFields(_)
RECURSIVE generateExample(_)

\* for (const prop of properties) example[prop.name] = generateExample(prop);
\* a later property of the same name replaces the value in place
generateObjectFields(properties) ==
  IF properties = <<>> THEN <<>>
  ELSE LET prop == Last(properties)
           before == generateObjectFields(SubSeq(properties, 1, Len(properties) - 1))
           field == [name |-> prop.name, value |-> generateExample(prop)]
           hit == {i \in 1..Len(before) : before[i].name = prop.name}
       IN IF hit = {} THEN Append(before, field)
          ELSE [i \in 1..Len(before) |-> IF i \in hit THEN field ELSE before[i]]

generateFromType(typeMetadata, fieldName) ==
  IF typeMetadata.isPrimitive
  THEN generatePrimitiveExample(typeMetadata, fieldName)
  ELSE IF typeMetadata.isArray /\ typeMetadata.elementType # <<>>
  THEN ArrayV(<< generateFromType(typeMetadata.elementType[1], <<>>) >>)
  ELSE IF typeMetadata.isEnum /\ typeMetadata.enumValues # <<>>
          /\ Len(typeMetadata.enumValues[1]) > 0
  THEN StrV(<< typeMetadata.enumValues[1][1] >>)
  ELSE IF typeMetadata.properties # <<>>
  THEN ObjectV(generateObjectFields(typeMetadata.properties[1]))
  ELSE NullV

\* generateExample(property); property.type is optional
generateExample(property) ==
  IF property.type # <<>> THEN generateFromType(property.type[1], << property.name >>)
  ELSE NullV

(***************************************************************************)
(* Example generator inputs and state machine                              *)
(***************************************************************************)
FieldNames ==
  {<<"e", "m", "a", "i", "l">>, <<"c", "o", "n", "t", "a", "c", "t", "U", "r", "l">>, <<"e", "m", "a", "i", "l", "A", "d", "d", "r", "e", "s", "s">>, <<"f", "i", "r", "s", "t", "N", "a", "m", "e">>, <<"l", "a", "s", "t", "_", "n", "a", "m", "e">>, <<"n", "a", "m", "e">>,
   <<"u", "s", "e", "r", "n", "a", "m", "e">>, <<"p", "h", "o", "n", "e">>, <<"c", "i", "t", "y">>, <<"z", "i", "p", "C", "o", "d", "e">>, <<"u", "s", "e", "r", "I", "d">>, <<"u", "s", "e", "r", "_", "i", "d">>, <<"v", "a", "l", "i", "d">>,
   <<"b", "i", "r", "t", "h", "D", "a", "t", "e">>, <<"u", "p", "d", "a", "t", "e", "D", "a", "t", "e">>, <<"c", "r", "e", "a", "t", "e", "d", "A", "t">>, <<"s", "t", "a", "t", "u", "s">>, <<"r", "o", "l", "e">>, <<"d", "e", "s", "c", "r", "i", "p", "t", "i", "o", "n">>,
   <<"t", "i", "t", "l", "e">>, <<"p", "r", "i", "c", "e">>, <<"c", "o", "u", "n", "t">>, <<"i", "s", "A", "c", "t", "i", "v", "e">>, <<"x">>, <<>>}

Formats == {<<>>, <<"">>, <<"email">>, <<"uri">>, <<"url">>, <<"uuid">>, <<"date">>,
            <<"date-time">>, <<"password">>, <<"binary">>}

PrimitiveTypes == {<<"string">>, <<"number">>, <<"integer">>, <<"boolean">>, <<"null">>,
                   <<"unknown">>}

PrimitiveMeta(type, format) == Meta(type, TRUE, FALSE, FALSE, <<>>, format, <<>>, <<>>, <<>>)

PropertyMetadata(name, type) == [name |-> name, type |-> type]

PrimitiveProperties ==
  {PropertyMetadata(n, << PrimitiveMeta(t, f) >>) :
     n \in FieldNames, t \in PrimitiveTypes, f \in Formats}

ExProperties == PrimitiveProperties

InitEx ==
  /\ exInput \in {<< p >> : p \in ExProperties}
  /\ exResult = <<>>
  /\ OthersIdleEx

\* exampleGenerator.generateExample(property)
GenerateExample ==
  /\ exInput # <<>>
  /\ exResult' = << generateExample(exInput[1]) >>
  /\ UNCHANGED <<exInput, otherThanEx>>

NextEx == GenerateExample

SpecEx == InitEx /\ [][NextEx]_vars

(***************************************************************************)
(* Claims about example synthesis                                          *)
(***************************************************************************)
ExampleDone == exResult # <<>>
TheProperty == exInput[1]
TheExample == exResult[1]
DeclaredFormat ==
  IF TheProperty.type[1].format = <<>> THEN "" ELSE TheProperty.type[1].format[1]

UrlSample == StrV(<<"h", "t", "t", "p", "s", ":", "/", "/", "e", "x", "a", "m", "p", "l", "e", ".", "c", "o", "m">>)
EmailSample == StrV(<<"u", "s", "e", "r", "@", "e", "x", "a", "m", "p", "l", "e", ".", "c", "o", "m">>)

\* the canonical sample of each format the precedence rule names
ClaimedFormatSample(format) ==
  CASE format = "email" -> << EmailSample >>
    [] format = "uri" -> << UrlSample >>
    [] format = "uuid" -> << StrV(<<"1", "2", "3", "e", "4", "5", "6", "7", "-", "e", "8", "9", "b", "-", "1", "2", "d", "3", "-", "a", "4", "5", "6", "-", "4", "2", "6", "6", "1", "4", "1", "7", "4", "0", "0", "0">>) >>
    [] format = "date" -> << StrV(<<"2", "0", "2", "6", "-", "0", "1", "-", "1", "9">>) >>
    [] format = "date-time" -> << StrV(<<"2", "0", "2", "6", "-", "0", "1", "-", "1", "9", "T", "1", "2", ":", "0", "0", ":", "0", "0", "Z">>) >>
    [] format = "password" -> << StrV(<<"P", "@", "s", "s", "w", "0", "r", "d", "1", "2", "3">>) >>
    [] OTHER -> <<>>

\* the generic sample of each bare type the precedence rule names
ClaimedTypeSample(type) ==
  CASE type = <<"string">> -> StrV(<<"e", "x", "a", "m", "p", "l", "e">>)
    [] type = <<"number">> -> NumV(<<"4", "2">>)
    [] type = <<"boolean">> -> BoolV(<<"t", "r", "u", "e">>)
    [] OTHER -> NullV

\* one row of the ordered field-name table: the row matches a lower-cased
\* name that contains one of inc, equals one of eq or ends with one of ends,
\* and contains none of notInc
NameRule(inc, eq, ends, notInc, sample) ==
  [inc |-> inc, eq |-> eq, ends |-> ends, notInc |-> notInc, sample |-> sample]

NameTable ==
  << NameRule({<<"e", "m", "a", "i", "l">>}, {}, {}, {}, EmailSample),
     NameRule({<<"f", "i", "r", "s", "t", "n", "a", "m", "e">>}, {<<"f", "i", "r", "s", "t", "_", "n", "a", "m", "e">>}, {}, {}, StrV(<<"J", "o", "h", "n">>)),
     NameRule({<<"l", "a", "s", "t", "n", "a", "m", "e">>}, {<<"l", "a", "s", "t", "_", "n", "a", "m", "e">>}, {}, {}, StrV(<<"D", "o", "e">>)),
     NameRule({<<"n", "a", "m", "e">>}, {}, {}, {<<"u", "s", "e", "r", "n", "a", "m", "e">>}, StrV(<<"E", "x", "a", "m", "p", "l", "e", " ", "N", "a", "m", "e">>)),
     NameRule({<<"u", "s", "e", "r", "n", "a", "m", "e">>}, {}, {}, {}, StrV(<<"j", "o", "h", "n", "d", "o", "e">>)),
     NameRule({<<"p", "h", "o", "n", "e">>, <<"m", "o", "b", "i", "l", "e">>}, {}, {}, {}, StrV(<<"+", "1", "2", "3", "4", "5", "6", "7", "8", "9", "0">>)),
     NameRule({<<"a", "d", "d", "r", "e", "s", "s">>}, {}, {}, {}, StrV(<<"1", "2", "3", " ", "M", "a", "i", "n", " ", "S", "t">>)),
     NameRule({<<"c", "i", "t", "y">>}, {}, {}, {}, StrV(<<"N", "e", "w", " ", "Y", "o", "r", "k">>)),
     NameRule({<<"c", "o", "u", "n", "t", "r", "y">>}, {}, {}, {}, StrV(<<"U", "S", "A">>)),
     NameRule({<<"z", "i", "p">>, <<"p", "o", "s", "t", "a", "l">>}, {}, {}, {}, StrV(<<"1", "0", "0", "0", "1">>)),
     NameRule({<<"u", "r", "l">>, <<"w", "e", "b", "s", "i", "t", "e">>}, {}, {}, {}, UrlSample),
     NameRule({<<"_", "i", "d">>}, {}, {<<"i", "d">>}, {}, NumV(<<"1">>)),
     NameRule({<<"d", "a", "t", "e">>}, {}, {}, {<<"u", "p", "d", "a", "t", "e">>}, StrV(<<"2", "0", "2", "6", "-", "0", "1", "-", "1", "9">>)),
     NameRule({<<"c", "r", "e", "a", "t", "e", "d", "a", "t">>}, {}, {}, {}, StrV(<<"2", "0", "2", "6", "-", "0", "1", "-", "1", "9", "T", "1", "2", ":", "0", "0", ":", "0", "0", "Z">>)),
     NameRule({<<"u", "p", "d", "a", "t", "e", "d", "a", "t">>}, {}, {}, {}, StrV(<<"2", "0", "2", "6", "-", "0", "1", "-", "1", "9", "T", "1", "2", ":", "0", "0", ":", "0", "0", "Z">>)),
     NameRule({<<"s", "t", "a", "t", "u", "s">>}, {}, {}, {}, StrV(<<"a", "c", "t", "i", "v", "e">>)),
     NameRule({<<"r", "o", "l", "e">>}, {}, {}, {}, StrV(<<"u", "s", "e", "r">>)),
     NameRule({<<"d", "e", "s", "c", "r", "i", "p", "t", "i", "o", "n">>, <<"d", "e", "s", "c">>}, {}, {}, {}, StrV(<<"E", "x", "a", "m", "p", "l", "e", " ", "d", "e", "s", "c", "r", "i", "p", "t", "i", "o", "n">>)),
     NameRule({<<"t", "i", "t", "l", "e">>}, {}, {}, {}, StrV(<<"E", "x", "a", "m", "p", "l", "e", " ", "T", "i", "t", "l", "e">>)),
     NameRule({<<"p", "r", "i", "c", "e">>, <<"a", "m", "o", "u", "n", "t">>}, {}, {}, {}, NumV(<<"9", "9", ".", "9", "9">>)),
     NameRule({<<"q", "u", "a", "n", "t", "i", "t", "y">>, <<"c", "o", "u", "n", "t">>}, {}, {}, {}, NumV(<<"1", "0">>)),
     NameRule({<<"i", "s">>, <<"h", "a", "s">>, <<"c", "a", "n">>}, {}, {}, {}, BoolV(<<"t", "r", "u", "e">>)) >>

RuleMatches(rule, lowerName) ==
  /\ \/ \E p \in rule.inc : includesText(lowerName, p)
     \/ lowerName \in rule.eq
     \/ \E p \in rule.ends : endsWith(lowerName, p)
  /\ \A p \in rule.notInc : ~includesText(lowerName, p)

MatchingRules(name) ==
  {i \in 1..Len(NameTable) : name # <<>> /\ RuleMatches(NameTable[i], toLowerCaseText(name))}

\* the sample of the first matching row, if any row matches
FirstNameSample(name) ==
  IF MatchingRules(name) = {} THEN <<>>
  ELSE << NameTable[CHOOSE i \in MatchingRules(name) :
                      \A j \in MatchingRules(name) : i <= j].sample >>

\* first match wins: format, then field name, then bare type
ByPrecedence(formatSample, nameSample, typeSample) ==
  IF formatSample # <<>> THEN formatSample[1]
  ELSE IF nameSample # <<>> THEN nameSample[1]
  ELSE typeSample

\* C11: the example of a primitive property is the sample of its declared
\* format when that is one of email, uri, uuid, date, date-time, password;
\* otherwise the sample of the first matching row of the field-name table;
\* otherwise the generic sample of the bare type string, number or boolean;
\* otherwise null.
C11_PrecedenceAsClaimed ==
  ExampleDone =>
    TheExample = ByPrecedence(ClaimedFormatSample(DeclaredFormat),
                              FirstNameSample(TheProperty.name),
                              ClaimedTypeSample(TheProperty.type[1].type))

\* C11 as amended: the same precedence, where the format url is recognized
\* as an alias of uri and the bare type integer has the sample of number.
C11_PrecedenceWithAliases ==
  ExampleDone =>
    TheExample =
      ByPrecedence(ClaimedFormatSample(IF DeclaredFormat = "url" THEN "uri"
                                       ELSE DeclaredFormat),
                   FirstNameSample(TheProperty.name),
                   ClaimedTypeSample(IF TheProperty.type[1].type = <<"integer">>
                                     THEN <<"number">> ELSE TheProperty.type[1].type))

\* an unrecognized format, a name that matches two rows of the table and a
\* bare type with a sample of its own: the first row's sample was returned
C11_Witness ==
  /\ ExampleDone
  /\ DeclaredFormat = "binary"
  /\ TheProperty.name = <<"e", "m", "a", "i", "l", "A", "d", "d", "r", "e", "s", "s">>
  /\ Cardinality(MatchingRules(TheProperty.name)) >= 2
  /\ TheProperty.type[1].type = <<"number">>
  /\ TheExample = EmailSample

\* C12: a primitive property named email with declared format uri gets the
\* email sample, and a property named contactUrl with no declared format gets
\* the URL sample.
C12_EmailNameOverUriFormat ==
  ExampleDone =>
    /\ (TheProperty.name = <<"e", "m", "a", "i", "l">> /\ TheProperty.type[1].format = <<"uri">>)
         => TheExample = EmailSample
    /\ (TheProperty.name = <<"c", "o", "n", "t", "a", "c", "t", "U", "r", "l">> /\ TheProperty.type[1].format = <<>>)
         => TheExample = UrlSample

\* C12 as amended: a primitive property named email with declared format uri
\* gets the URI sample, the declared format winning over the name; a property
\* named contactUrl with no declared format gets the URL sample.
C12_UriFormatOverEmailName ==
  ExampleDone =>
    /\ (TheProperty.name = <<"e", "m", "a", "i", "l">> /\ TheProperty.type[1].format = <<"uri">>)
         => TheExample = UrlSample
    /\ (TheProperty.name = <<"c", "o", "n", "t", "a", "c", "t", "U", "r", "l">> /\ TheProperty.type[1].format = <<>>)
         => TheExample = UrlSample

C12_Witness ==
  /\ ExampleDone
  /\ TheProperty.name = <<"e", "m", "a", "i", "l">>
  /\ TheProperty.type[1].format = <<"uri">>
  /\ TheExample = UrlSample

(***************************************************************************)
(* ValidatorExtractor.  A decorator is its name and the text of each       *)
(* argument; a constraint value is text, a number, a boolean, a list of    *)
(* one text or undefined.                                                  *)
(***************************************************************************)
Decorator(name, args) == [name |-> name, args |-> args]

TextC(s) == [k |-> "text", n |-> 0, s |-> s]
NumC(n) == [k |-> "num", n |-> n, s |-> <<>>]
BoolC(literal) == [k |-> "bool", n |-> 0, s |-> literal]
ListC(s) == [k |-> "list", n |-> 0, s |-> s]
UndefC == [k |-> "undef", n |-> 0, s |-> <<>>]

Constraint(key, value) == [key |-> key, value |-> value]

\* ValidatorMetadata; args is a sequence of length 0 when the field is not set
ValidatorMetadata(name, args, constraints) ==
  [name |-> name, args |-> args, constraints |-> constraints]

HexDigits == <<"0", "1", "2", "3", "4", "5", "6", "7", "8", "9",
               "a", "b", "c", "d", "e", "f">>

\* the value of a digit in the radix, or -1
DigitValue(c, radix) ==
  LET hits == {i \in 1..radix : HexDigits[i] = toLowerCase(c)}
  IN IF hits = {} THEN -1 ELSE (CHOOSE i \in hits : TRUE) - 1

RECURSIVE DigitPrefixValue(_, _, _, _)
\* the number denoted by the longest prefix of digits, given the value so far
DigitPrefixValue(s, radix, acc, seen) ==
  IF s = <<>> \/ DigitValue(Head(s), radix) < 0
  THEN [nan |-> ~seen, n |-> acc]
  ELSE DigitPrefixValue(Tail(s), radix, acc * radix + DigitValue(Head(s), radix), TRUE)

\* parseInt(text): leading white space, an optional sign, an optional 0x and
\* the longest prefix of digits; NaN when there is no digit
parseInt(text) ==
  LET t == trimStart(text)
      negative == t # <<>> /\ Head(t) = "-"
      unsigned == IF t # <<>> /\ Head(t) \in {"-", "+"} THEN Tail(t) ELSE t
      hex == Len(unsigned) >= 2 /\ unsigned[1] = "0" /\ unsigned[2] \in {"x", "X"}
      r == IF hex THEN DigitPrefixValue(SubSeq(unsigned, 3, Len(unsigned)), 16, 0, FALSE)
           ELSE DigitPrefixValue(unsigned, 10, 0, FALSE)
  IN [nan |-> r.nan, n |-> IF negative THEN 0 - r.n ELSE r.n]

\* parseArgument(args[i]): undefined for a missing argument, the number
\* parseInt finds, else the text
parseArgument(args, i) ==
  IF i > Len(args) THEN UndefC
  ELSE IF parseInt(args[i]).nan THEN TextC(args[i])
  ELSE NumC(parseInt(args[i]).n)

\* text.replace(/^\/|\/$/g, '')
stripPatternDelimiters(text) ==
  LET a == IF text # <<>> /\ Head(text) = "/" THEN Tail(text) ELSE text
  IN IF a # <<>> /\ Last(a) = "/" THEN SubSeq(a, 1, Len(a) - 1) ELSE a

\* a validator with one numeric argument
OneArgument(name, args, key) ==
  << ValidatorMetadata(name, << << parseArgument(args, 1) >> >>,
                       << Constraint(key, parseArgument(args, 1)) >>) >>

\* a validator without arguments and with one constraint
Plain(name, key, value) ==
  << ValidatorMetadata(name, <<>>, << Constraint(key, value) >>) >>

\* as mapValidatorDecorator, but every unrecognized name is kept
mapValidatorDecorator_KeepAll(decorator) ==
  << ValidatorMetadata(decorator.name, <<>>, <<>>) >>

\* mapValidatorDecorator(decorator): a sequence of length 0 for null
mapValidatorDecorator(decorator) ==
  LET name == decorator.name
      args == decorator.args
  IN CASE name = <<"I", "s", "S", "t", "r", "i", "n", "g">> -> Plain(name, "type", TextC(<<"s", "t", "r", "i", "n", "g">>))
       [] name = <<"I", "s", "E", "m", "a", "i", "l">> -> Plain(name, "format", TextC(<<"e", "m", "a", "i", "l">>))
       [] name \in {<<"I", "s", "U", "r", "l">>, <<"I", "s", "U", "R", "L">>} -> Plain(name, "format", TextC(<<"u", "r", "i">>))
       [] name = <<"I", "s", "U", "U", "I", "D">> -> Plain(name, "format", TextC(<<"u", "u", "i", "d">>))
       [] name = <<"M", "i", "n", "L", "e", "n", "g", "t", "h">> -> OneArgument(name, args, "minLength")
       [] name = <<"M", "a", "x", "L", "e", "n", "g", "t", "h">> -> OneArgument(name, args, "maxLength")
       [] name = <<"L", "e", "n", "g", "t", "h">> ->
            << ValidatorMetadata(name,
                 << << parseArgument(args, 1), parseArgument(args, 2) >> >>,
                 << Constraint("minLength", parseArgument(args, 1)),
                    Constraint("maxLength", parseArgument(args, 2)) >>) >>
       [] name = <<"M", "a", "t", "c", "h", "e", "s">> ->
            << ValidatorMetadata(name,
                 << << IF args = <<>> THEN UndefC ELSE TextC(args[1]) >> >>,
                 << Constraint("pattern",
                      IF args = <<>> THEN UndefC
                      ELSE TextC(stripPatternDelimiters(args[1]))) >>) >>
       [] name \in {<<"I", "s", "N", "u", "m", "b", "e", "r">>, <<"I", "s", "I", "n", "t">>, <<"I", "s", "D", "e", "c", "i", "m", "a", "l">>} ->
            Plain(name, "type", TextC(<<"n", "u", "m", "b", "e", "r">>))
       [] name = <<"M", "i", "n">> -> OneArgument(name, args, "minimum")
       [] name = <<"M", "a", "x">> -> OneArgument(name, args, "maximum")
       [] name = <<"I", "s", "B", "o", "o", "l", "e", "a", "n">> -> Plain(name, "type", TextC(<<"b", "o", "o", "l", "e", "a", "n">>))
       [] name \in {<<"I", "s", "D", "a", "t", "e">>, <<"I", "s", "D", "a", "t", "e", "S", "t", "r", "i", "n", "g">>} ->
            Plain(name, "format", TextC(<<"d", "a", "t", "e", "-", "t", "i", "m", "e">>))
       [] name = <<"I", "s", "E", "n", "u", "m">> ->
            IF args # <<>>
            THEN << ValidatorMetadata(name, << << TextC(args[1]) >> >>,
                                      << Constraint("enum", ListC(args[1])) >>) >>
            ELSE << ValidatorMetadata(name, <<>>, <<>>) >>
       [] name = <<"I", "s", "A", "r", "r", "a", "y">> -> Plain(name, "type", TextC(<<"a", "r", "r", "a", "y">>))
       [] name = <<"A", "r", "r", "a", "y", "M", "i", "n", "S", "i", "z", "e">> -> OneArgument(name, args, "minItems")
       [] name = <<"A", "r", "r", "a", "y", "M", "a", "x", "S", "i", "z", "e">> -> OneArgument(name, args, "maxItems")
       [] name = <<"I", "s", "O", "p", "t", "i", "o", "n", "a", "l">> -> Plain(name, "required", BoolC(<<"f", "a", "l", "s", "e">>))
       [] name = <<"I", "s", "N", "o", "t", "E", "m", "p", "t", "y">> -> Plain(name, "required", BoolC(<<"t", "r", "u", "e">>))
       [] name = <<"I", "s", "O", "b", "j", "e", "c", "t">> -> Plain(name, "type", TextC(<<"o", "b", "j", "e", "c", "t">>))
       [] OTHER ->
            IF startsWith(name, <<"I", "s">>) \/ startsWith(name, <<"V", "a", "l", "i", "d", "a", "t", "e">>)
            THEN << ValidatorMetadata(name, <<>>, <<>>) >>
            ELSE <<>>

RECURSIVE extractValidators(_)
\* extractValidators: the non-null mappings of the decorators, in order
extractValidators(decorators) ==
  IF decorators = <<>> THEN <<>>
  ELSE mapValidatorDecorator(Head(decorators)) \o extractValidators(Tail(decorators))

(***************************************************************************)
(* Validator inputs and state machine                                      *)
(***************************************************************************)
MaxDecorators == 3   \* decorators on the property

DecoratorTemplates ==
  {Decorator(<<"I", "s", "S", "t", "r", "i", "n", "g">>, <<>>), Decorator(<<"M", "i", "n", "L", "e", "n", "g", "t", "h">>, << <<"5">> >>),
   Decorator(<<"M", "a", "x", "L", "e", "n", "g", "t", "h">>, << <<"1", "0", "p", "x">> >>), Decorator(<<"M", "i", "n">>, << <<"M", "I", "N", "_", "A", "G", "E">> >>),
   Decorator(<<"L", "e", "n", "g", "t", "h">>, << <<"1">> >>), Decorator(<<"M", "a", "t", "c", "h", "e", "s">>, << <<"/", "^", "a", "+", "$", "/">> >>),
   Decorator(<<"I", "s", "E", "n", "u", "m">>, << <<"R", "o", "l", "e">> >>),
   Decorator(<<"I", "s", "C", "u", "s", "t", "o", "m">>, <<>>), Decorator(<<"V", "a", "l", "i", "d", "a", "t", "e", "N", "e", "s", "t", "e", "d">>, <<>>),
   Decorator(<<"T", "r", "a", "n", "s", "f", "o", "r", "m">>, <<>>), Decorator(<<"i", "s", "L", "o", "w", "e", "r">>, <<>>),
   Decorator(<<"A", "p", "i", "P", "r", "o", "p", "e", "r", "t", "y">>, << <<"{", "}">> >>),
   Decorator(<<"M", "a", "x">>, << <<"2", " ", "*", " ", "8">> >>)}

DecoratorLists == SeqsUpTo(DecoratorTemplates, MaxDecorators)

InitVal ==
  /\ valInput \in {<< d >> : d \in DecoratorLists}
  /\ valResult = <<>>
  /\ OthersIdleVal

\* validatorExtractor.extractValidators(property)
ExtractValidators ==
  /\ valInput # <<>>
  /\ valResult' = << extractValidators(valInput[1]) >>
  /\ UNCHANGED <<valInput, otherThanVal>>

NextVal == ExtractValidators

SpecVal == InitVal /\ [][NextVal]_vars

(***************************************************************************)
(* Claims about the validator mapping                                      *)
(***************************************************************************)
Extracted == valResult # <<>>
TheDecorators == valInput[1]
TheValidators == valResult[1]

\* the annotation names of the recognized table
RecognizedNames ==
  {<<"I", "s", "S", "t", "r", "i", "n", "g">>, <<"I", "s", "E", "m", "a", "i", "l">>, <<"I", "s", "U", "r", "l">>, <<"I", "s", "U", "R", "L">>, <<"I", "s", "U", "U", "I", "D">>, <<"M", "i", "n", "L", "e", "n", "g", "t", "h">>, <<"M", "a", "x", "L", "e", "n", "g", "t", "h">>,
   <<"L", "e", "n", "g", "t", "h">>, <<"M", "a", "t", "c", "h", "e", "s">>, <<"I", "s", "N", "u", "m", "b", "e", "r">>, <<"I", "s", "I", "n", "t">>, <<"I", "s", "D", "e", "c", "i", "m", "a", "l">>, <<"M", "i", "n">>, <<"M", "a", "x">>,
   <<"I", "s", "B", "o", "o", "l", "e", "a", "n">>, <<"I", "s", "D", "a", "t", "e">>, <<"I", "s", "D", "a", "t", "e", "S", "t", "r", "i", "n", "g">>, <<"I", "s", "E", "n", "u", "m">>, <<"I", "s", "A", "r", "r", "a", "y">>, <<"A", "r", "r", "a", "y", "M", "i", "n", "S", "i", "z", "e">>,
   <<"A", "r", "r", "a", "y", "M", "a", "x", "S", "i", "z", "e">>, <<"I", "s", "O", "p", "t", "i", "o", "n", "a", "l">>, <<"I", "s", "N", "o", "t", "E", "m", "p", "t", "y">>, <<"I", "s", "O", "b", "j", "e", "c", "t">>}

FollowsConvention(name) == startsWith(name, <<"I", "s">>) \/ startsWith(name, <<"V", "a", "l", "i", "d", "a", "t", "e">>)

\* the decorators that are collected: recognized, or following the convention
Collected == SelectSeq(TheDecorators,
                       LAMBDA d : d.name \in RecognizedNames \/ FollowsConvention(d.name))

\* C13: an annotation whose name is not in the recognized table gives a
\* descriptor with no constraints when the name begins with Is or Validate and
\* is not collected otherwise; extractValidators returns one descriptor per
\* collected annotation, in declaration order.
C13_UnrecognizedAnnotations ==
  Extracted =>
    /\ Len(TheValidators) = Len(Collected)
    /\ \A i \in 1..Len(Collected) :
         /\ TheValidators[i].name = Collected[i].name
         /\ Collected[i].name \notin RecognizedNames =>
              (TheValidators[i].constraints = <<>> /\ TheValidators[i].args = <<>>)

\* an unrecognized name following the convention was kept without constraints
\* between a dropped annotation and a recognized one
C13_Witness ==
  /\ Extracted
  /\ Len(TheDecorators) = 3
  /\ TheDecorators[1].name = <<"T", "r", "a", "n", "s", "f", "o", "r", "m">>
  /\ TheDecorators[2].name = <<"V", "a", "l", "i", "d", "a", "t", "e", "N", "e", "s", "t", "e", "d">>
  /\ TheDecorators[3].name = <<"M", "i", "n", "L", "e", "n", "g", "t", "h">>
  /\ Len(TheValidators) = 2
  /\ TheValidators[1].name = <<"V", "a", "l", "i", "d", "a", "t", "e", "N", "e", "s", "t", "e", "d">>
  /\ TheValidators[1].constraints = <<>>

(***************************************************************************)
(* Location utilities: version detection                                   *)
(***************************************************************************)
\* both separator styles read as '/'
normalizeSeparators(path) ==
  [i \in 1..Len(path) |-> IF path[i] = "\\" THEN "/" ELSE path[i]]

pathSegments(path) == SelectNonEmpty(split(normalizeSeparators(path), "/"))

\* as detectVersionFromPath, but the last version segment is returned
detectVersionFromPath_Last(filePath) ==
  LET segs == pathSegments(filePath)
      hits == {i \in 1..Len(segs) : IsVersionTag(toLowerCaseText(segs[i]))}
  IN IF hits = {} THEN Null
     ELSE Some(toLowerCaseText(segs[CHOOSE i \in hits : \A j \in hits : j <= i]))

\* detectVersionFromPath(filePath): the first segment that is a version tag,
\* in lower case, or undefined
detectVersionFromPath(filePath) ==
  LET segs == pathSegments(filePath)
      hits == {i \in 1..Len(segs) : IsVersionTag(toLowerCaseText(segs[i]))}
  IN IF hits = {} THEN Null
     ELSE Some(toLowerCaseText(segs[CHOOSE i \in hits : \A j \in hits : i <= j]))

(***************************************************************************)
(* Location utilities: inputs and state machine                            *)
(***************************************************************************)
MaxSegLen == 1     \* characters of a generated segment
MaxSegments == 3   \* segments handed to combinePaths
MaxDirs == 2       \* directories of a location path

SegmentPool ==
  SeqsUpTo({"/", "a"}, MaxSegLen)
    \cup {<<"/", "a", "p", "i", "/", "v", "1", "/">>, <<"/", "p", "r", "o", "f", "i", "l", "e", "/">>, <<"a", "/", "/">>, <<"/", "/", "a", "/", "b">>}
SegmentLists == SeqsUpTo(SegmentPool, MaxSegments)

DirPool == {<<"s", "r", "c">>, <<"a", "p", "i">>, <<"v", "1">>, <<"V", "2">>, <<"v", "1", "0">>, <<"v", "e", "r", "s", "i", "o", "n", "1">>, <<"v">>, <<"1", "v">>,
            <<"a", "d", "m", "i", "n">>, <<"a", "u", "t", "h">>, <<"a", "d", "m", "i", "n", "-", "a", "u", "t", "h">>, <<"c", "o", "n", "t", "r", "o", "l", "l", "e", "r", "s">>}
FilePool == {<<"a", "d", "m", "i", "n", ".", "c", "o", "n", "t", "r", "o", "l", "l", "e", "r", ".", "t", "s">>, <<"x", ".", "t", "s">>}

LocationPath(dirs, file, sep) == join(dirs \o << file >>, << sep >>)

LocationPaths ==
  {<<>>} \cup {LocationPath(d, f, s) :
                 d \in SeqsUpTo(DirPool, MaxDirs), f \in FilePool, s \in {"/", "\\"}}

LocInput(segments, path) == [segments |-> segments, path |-> path]

LocInputs ==
  {LocInput(s, <<>>) : s \in SegmentLists} \cup {LocInput(<<>>, p) : p \in LocationPaths}

InitLoc ==
  /\ locInput \in {<< i >> : i \in LocInputs}
  /\ locCall = <<>>
  /\ locResult = <<>>
  /\ OthersIdleLoc

CombinePaths ==
  /\ locInput # <<>>
  /\ locCall' = << "combinePaths" >>
  /\ locResult' = << Some(combinePaths(locInput[1].segments)) >>
  /\ UNCHANGED <<locInput, otherThanLoc>>

DetectVersionFromPath ==
  /\ locInput # <<>>
  /\ locCall' = << "detectVersionFromPath" >>
  /\ locResult' = << detectVersionFromPath(locInput[1].path) >>
  /\ UNCHANGED <<locInput, otherThanLoc>>

DetectCategoryFromPath ==
  /\ locInput # <<>>
  /\ locCall' = << "detectCategoryFromPath" >>
  /\ locResult' = << Some(detectCategoryFromPath(locInput[1].path)) >>
  /\ UNCHANGED <<locInput, otherThanLoc>>

NextLoc ==
  \/ CombinePaths
  \/ DetectVersionFromPath
  \/ DetectCategoryFromPath

SpecLoc == InitLoc /\ [][NextLoc]_vars

(***************************************************************************)
(* Claims about the location utilities                                     *)
(***************************************************************************)
LocDone(op) == locCall = << op >>
TheSegments == locInput[1].segments
ThePath == locInput[1].path
TheLocResult == locResult[1]

\* the part of a segment between its leading and its trailing separators
Core(segment) ==
  LET inside == {i \in 1..Len(segment) : segment[i] # "/"}
  IN IF inside = {} THEN <<>>
     ELSE SubSeq(segment, CHOOSE i \in inside : \A j \in inside : i <= j,
                          CHOOSE i \in inside : \A j \in inside : j <= i)

\* the indices of the segments that have a core, and the k-th of them
Contributing(segments) == {i \in 1..Len(segments) : Core(segments[i]) # <<>>}
KthCore(segments, k) ==
  Core(segments[CHOOSE i \in Contributing(segments) :
                  Cardinality({j \in Contributing(segments) : j <= i}) = k])
Cores(segments) ==
  [k \in 1..Cardinality(Contributing(segments)) |-> KthCore(segments, k)]

\* C14: combinePathSegments strips the leading and trailing separators of
\* every segment, drops the segments left empty and joins the rest with one
\* separator each; the result neither starts nor ends with a separator, is
\* the empty string when nothing is left, and combining it again changes
\* nothing.
C14_CombineStripsDropsJoins ==
  LocDone("combinePaths") =>
    LET r == TheLocResult.s IN
      /\ ~TheLocResult.isNull
      /\ r = join(Cores(TheSegments), <<"/">>)
      /\ r # <<>> => (r[1] # "/" /\ r[Len(r)] # "/")
      /\ Contributing(TheSegments) = {} => r = <<>>
      /\ combinePaths(<< r >>) = r

\* a segment that is only separators lies between two that are not
C14_Witness ==
  /\ LocDone("combinePaths")
  /\ Len(TheSegments) = 3
  /\ TheSegments[1] = <<"/", "a", "p", "i", "/", "v", "1", "/">>
  /\ TheSegments[2] = <<"/">>
  /\ TheSegments[3] = <<"/", "p", "r", "o", "f", "i", "l", "e", "/">>
  /\ TheLocResult.s = <<"a", "p", "i", "/", "v", "1", "/", "p", "r", "o", "f", "i", "l", "e">>

\* the segments of a path, whichever separator it is written with
SegmentsOf(path) ==
  LET isSep(i) == path[i] \in {"/", "\\"}
      starts == {i \in 1..Len(path) : ~isSep(i) /\ (i = 1 \/ isSep(i - 1))}
      endOf(i) == CHOOSE e \in i..Len(path) :
                    /\ \A k \in i..e : ~isSep(k)
                    /\ (e = Len(path) \/ isSep(e + 1))
      kth(k) == CHOOSE i \in starts : Cardinality({j \in starts : j <= i}) = k
  IN [k \in 1..Cardinality(starts) |-> SubSeq(path, kth(k), endOf(kth(k)))]

\* 'v' followed by one or more digits and nothing else, in either case
LooksLikeVersion(seg) ==
  /\ Len(seg) >= 2
  /\ seg[1] \in {"v", "V"}
  /\ \A i \in 2..Len(seg) : seg[i] \in Digits

\* the path written with the other separator style
OtherStyle(path) ==
  [i \in 1..Len(path) |->
     IF path[i] = "/" THEN "\\" ELSE IF path[i] = "\\" THEN "/" ELSE path[i]]

C15_WitnessFirstOfTwo ==
  /\ LocDone("detectVersionFromPath")
  /\ ThePath = <<"v", "1", "/", "V", "2", "/", "a", "d", "m", "i", "n", ".", "c", "o", "n", "t", "r", "o", "l", "l", "e", "r", ".", "t", "s">>
  /\ TheLocResult = Some(<<"v", "1">>)

\* the elements of s at the indices I, in order
Pick(s, I) ==
  [k \in 1..Cardinality(I) |->
     s[CHOOSE i \in I : Cardinality({j \in I : j <= i}) = k]]

\* the file name up to its '.controller.ts' or '.ts' qualifiers
StemOf(fileName) ==
  LET n == Len(fileName)
      tail(k) == IF k > n THEN <<>> ELSE SubSeq(fileName, n - k + 1, n)
      cut == IF tail(14) = <<".", "c", "o", "n", "t", "r", "o", "l", "l", "e", "r", ".", "t", "s">> THEN 14
             ELSE IF tail(3) = <<".", "t", "s">> THEN 3 ELSE 0
  IN SubSeq(fileName, 1, n - cut)

\* a directory segment that carries no category
Dropped(seg) ==
  \/ seg \in {<<"s", "r", "c">>, <<"a", "p", "i">>, <<"c", "o", "n", "t", "r", "o", "l", "l", "e", "r", "s">>}
  \/ (Len(seg) >= 2 /\ seg[1] = "v" /\ \A i \in 2..Len(seg) : seg[i] \in Digits)

\* the label the claim describes for a path
ClaimedCategory(path) ==
  LET segs == SegmentsOf(path)
      dirs == Pick(segs, {i \in 1..(Len(segs) - 1) : ~Dropped(segs[i])})
      named == dirs \o << StemOf(segs[Len(segs)]) >>
      kept == Pick(named, {i \in 1..Len(named) : i = 1 \/ named[i] # named[i - 1]})
  IN IF segs = <<>> THEN <<"U", "n", "c", "a", "t", "e", "g", "o", "r", "i", "z", "e", "d">>
     ELSE join([i \in 1..Len(kept) |-> humanize(kept[i])], <<" ", "-", " ">>)

C16_WitnessCollapsed ==
  /\ LocDone("detectCategoryFromPath")
  /\ ThePath = <<"a", "d", "m", "i", "n", "/", "a", "p", "i", "/", "a", "d", "m", "i", "n", ".", "c", "o", "n", "t", "r", "o", "l", "l", "e", "r", ".", "t", "s">>
  /\ TheLocResult.s = <<"A", "d", "m", "i", "n">>

C16_WitnessStemOnly ==
  /\ LocDone("detectCategoryFromPath")
  /\ ThePath = <<"s", "r", "c", "/", "v", "1", "0", "/", "x", ".", "t", "s">>
  /\ TheLocResult.s = <<"X">>

(***************************************************************************)
(* RouteScanner.  A method carries decorators (name and optional path      *)
(* argument) and parameters (binding decorator, its argument, the type).   *)
(***************************************************************************)
MethodDecorator(name, path) == [name |-> name, path |-> path]
TypeNode(kind, name, members, properties) ==
  [kind |-> kind, name |-> name, members |-> members, properties |-> properties]
ParameterDeclaration(name, binding, arg, type) ==
  [name |-> name, binding |-> binding, arg |-> arg, type |-> type]
MethodDeclaration(name, decorators, parameters) ==
  [name |-> name, decorators |-> decorators, parameters |-> parameters]

\* ['Get', 'Post', 'Put', 'Patch', 'Delete']
HttpDecoratorNames == {<<"G", "e", "t">>, <<"P", "o", "s", "t">>, <<"P", "u", "t">>, <<"P", "a", "t", "c", "h">>, <<"D", "e", "l", "e", "t", "e">>}

\* decorators.find(dec => [...].includes(dec.getName()))
findHttpDecorator(decorators) ==
  LET hits == {i \in 1..Len(decorators) : decorators[i].name \in HttpDecoratorNames}
  IN IF hits = {} THEN <<>>
     ELSE << decorators[CHOOSE i \in hits : \A j \in hits : i <= j] >>

\* the decorator's string argument, '' when it has none
extractRoutePath(httpDecorator) ==
  IF httpDecorator.path = <<>> THEN <<>> ELSE httpDecorator.path[1]

\* s.replace(/\/+/g, '/')
RECURSIVE collapseSlashes(_)
collapseSlashes(s) ==
  IF Len(s) < 2 THEN s
  ELSE IF s[1] = "/" /\ s[2] = "/" THEN collapseSlashes(Tail(s))
  ELSE << Head(s) >> \o collapseSlashes(Tail(s))

\* RouteScanner.combinePaths(base, path)
routeCombinePaths(base, path) ==
  LET given == << base, path >>
      keep == {i \in 1..2 : given[i] # <<>> /\ given[i] # <<"/">>}
      parts == [k \in 1..Cardinality(keep) |->
                  given[CHOOSE i \in keep : Cardinality({j \in keep : j <= i}) = k]]
  IN <<"/">> \o collapseSlashes(join(parts, <<"/">>))

\* where a binding decorator puts its argument
ParameterLocation(binding) ==
  CASE binding = <<"P", "a", "r", "a", "m">> -> <<"p", "a", "t", "h">>
    [] binding = <<"Q", "u", "e", "r", "y">> -> <<"q", "u", "e", "r", "y">>
    [] binding = <<"H", "e", "a", "d", "e", "r", "s">> -> <<"h", "e", "a", "d", "e", "r">>
    [] OTHER -> <<>>

ParameterDescriptor(name, in) == [name |-> name, in |-> in]

\* as extractParameters, but a @Body argument is listed too
extractParameters_WithBody(parameters) ==
  LET bound == {i \in 1..Len(parameters) :
                  \/ ParameterLocation(parameters[i].binding) # <<>>
                  \/ parameters[i].binding = <<"B", "o", "d", "y">>}
  IN [k \in 1..Cardinality(bound) |->
        LET p == parameters[CHOOSE i \in bound : Cardinality({j \in bound : j <= i}) = k]
        IN ParameterDescriptor(IF p.arg = <<>> THEN p.name ELSE p.arg,
                               IF p.binding = <<"B", "o", "d", "y">> THEN <<"b", "o", "d", "y">>
                               ELSE ParameterLocation(p.binding))]

\* one descriptor per argument bound to the path, the query or a header
extractParameters(parameters) ==
  LET bound == {i \in 1..Len(parameters) :
                  ParameterLocation(parameters[i].binding) # <<>>}
  IN [k \in 1..Cardinality(bound) |->
        LET p == parameters[CHOOSE i \in bound : Cardinality({j \in bound : j <= i}) = k]
        IN ParameterDescriptor(IF p.arg = <<>> THEN p.name ELSE p.arg,
                               ParameterLocation(p.binding))]

\* an inline object type or a class: something with properties
isObjectShape(type) == type.kind \in {"object", "class"}

\* the type of the first @Body argument, when it is an object shape
extractRequestBody(parameters) ==
  LET bodies == {i \in 1..Len(parameters) : parameters[i].binding = <<"B", "o", "d", "y">>}
  IN IF bodies = {} THEN <<>>
     ELSE LET type == parameters[CHOOSE i \in bodies : \A j \in bodies : i <= j].type
          IN IF isObjectShape(type)
             THEN << [name |-> type.name, properties |-> type.properties] >>
             ELSE <<>>

RouteMetadata(name, httpMethod, path, fullPath, params, requestBody) ==
  [name |-> name, httpMethod |-> httpMethod, path |-> path, fullPath |-> fullPath,
   params |-> params, requestBody |-> requestBody]

\* RouteScanner.extractRoute(method, controllerPath): null is <<>>
extractRoute(method, controllerPath) ==
  LET httpDecorator == findHttpDecorator(method.decorators)
  IN IF httpDecorator = <<>> THEN <<>>
     ELSE LET routePath == extractRoutePath(httpDecorator[1])
          IN << RouteMetadata(method.name,
                              toUpperCaseText(httpDecorator[1].name),
                              routePath,
                              routeCombinePaths(controllerPath, routePath),
                              extractParameters(method.parameters),
                              extractRequestBody(method.parameters)) >>

\* RouteScanner.scanRoutes(classDeclaration, controllerPath)
RECURSIVE scanRoutes(_, _)
scanRoutes(methods, controllerPath) ==
  IF methods = <<>> THEN <<>>
  ELSE extractRoute(Head(methods), controllerPath) \o scanRoutes(Tail(methods), controllerPath)

(***************************************************************************)
(* RouteScanner: the controllers scanned and the state machine             *)
(***************************************************************************)
MaxMethods == 2   \* methods of the scanned controller

Http(name) == MethodDecorator(name, <<>>)
HttpAt(name, path) == MethodDecorator(name, << path >>)

MethodDecoratorLists ==
  { <<>>,
    << HttpAt(<<"G", "e", "t">>, <<"i", "t", "e", "m", "s">>) >>, << Http(<<"P", "o", "s", "t">>) >>, << HttpAt(<<"P", "u", "t">>, <<":", "i", "d">>) >>,
    << Http(<<"P", "a", "t", "c", "h">>) >>, << HttpAt(<<"D", "e", "l", "e", "t", "e">>, <<":", "i", "d">>) >>,
    << Http(<<"U", "s", "e", "G", "u", "a", "r", "d", "s">>) >>, << Http(<<"A", "l", "l">>) >>,
    << Http(<<"U", "s", "e", "G", "u", "a", "r", "d", "s">>), Http(<<"G", "e", "t">>) >>,
    << Http(<<"G", "e", "t">>), HttpAt(<<"P", "o", "s", "t">>, <<"i", "t", "e", "m", "s">>) >>,
    << Http(<<"D", "e", "l", "e", "t", "e">>), Http(<<"G", "e", "t">>) >> }

Primitive(name) == TypeNode("primitive", name, <<>>, <<>>)
StringType == Primitive(<<"s", "t", "r", "i", "n", "g">>)
NumberType == Primitive(<<"n", "u", "m", "b", "e", "r">>)
AnyType == TypeNode("any", <<"a", "n", "y">>, <<>>, <<>>)
StringOrUndefined == TypeNode("union", <<"s", "t", "r", "i", "n", "g", " ", "|", " ", "u", "n", "d", "e", "f", "i", "n", "e", "d">>, << <<"s", "t", "r", "i", "n", "g">>, <<"u", "n", "d", "e", "f", "i", "n", "e", "d">> >>, <<>>)
InlineObject ==
  TypeNode("object", <<"I", "n", "l", "i", "n", "e", "T", "y", "p", "e">>, <<>>,
           << [name |-> <<"n", "a", "m", "e">>, type |-> <<"s", "t", "r", "i", "n", "g">>], [name |-> <<"a", "g", "e">>, type |-> <<"n", "u", "m", "b", "e", "r">>] >>)
DtoClass ==
  TypeNode("class", <<"C", "r", "e", "a", "t", "e", "D", "t", "o">>, <<>>, << [name |-> <<"t", "i", "t", "l", "e">>, type |-> <<"s", "t", "r", "i", "n", "g">>] >>)

Bound(binding, arg, name, type) == ParameterDeclaration(name, binding, arg, type)

ParameterLists ==
  { << Bound(<<"P", "a", "r", "a", "m">>, <<"i", "d">>, <<"i", "d">>, StringType) >>,
    << Bound(<<"Q", "u", "e", "r", "y">>, <<"p", "a", "g", "e">>, <<"p", "a", "g", "e">>, NumberType),
       Bound(<<"Q", "u", "e", "r", "y">>, <<"l", "i", "m", "i", "t">>, <<"l", "i", "m", "i", "t">>, NumberType) >>,
    << Bound(<<"B", "o", "d", "y">>, <<>>, <<"b", "o", "d", "y">>, StringType) >>,
    << Bound(<<"B", "o", "d", "y">>, <<>>, <<"b", "o", "d", "y">>, StringOrUndefined) >>,
    << Bound(<<"B", "o", "d", "y">>, <<>>, <<"b", "o", "d", "y">>, InlineObject) >>,
    << Bound(<<"B", "o", "d", "y">>, <<>>, <<"d", "t", "o">>, DtoClass) >>,
    << Bound(<<"P", "a", "r", "a", "m">>, <<"i", "d">>, <<"i", "d">>, StringType), Bound(<<"B", "o", "d", "y">>, <<>>, <<"b", "o", "d", "y">>, AnyType) >>,
    << Bound(<<"B", "o", "d", "y">>, <<>>, <<"b", "o", "d", "y">>, InlineObject), Bound(<<"P", "a", "r", "a", "m">>, <<"i", "d">>, <<"i", "d">>, StringType) >>,
    << Bound(<<>>, <<>>, <<"p", "l", "a", "i", "n">>, InlineObject) >> }

MethodPool ==
  {MethodDeclaration(<<"h", "a", "n", "d", "l", "e", "r">>, d, <<>>) : d \in MethodDecoratorLists}
    \cup {MethodDeclaration(<<"h", "a", "n", "d", "l", "e", "r">>, << HttpAt(<<"P", "o", "s", "t">>, <<":", "i", "d">>) >>, p) : p \in ParameterLists}
    \cup {MethodDeclaration(<<"h", "e", "l", "p", "e", "r">>, <<>>, p) : p \in ParameterLists}

\* the k-th method of a class is named after its position
Numbered(methods) ==
  [k \in 1..Len(methods) |->
     MethodDeclaration(methods[k].name \o << CHOOSE c \in Digits : DigitValue(c, 10) = k >>,
                       methods[k].decorators, methods[k].parameters)]

ControllerClasses == {Numbered(m) : m \in SeqsUpTo(MethodPool, MaxMethods)}
ControllerPaths == {<<"t", "e", "s", "t">>, <<>>}

RouteInput(methods, controllerPath) ==
  [methods |-> methods, controllerPath |-> controllerPath]
RouteInputs == {RouteInput(m, p) : m \in ControllerClasses, p \in ControllerPaths}

InitRoute ==
  /\ routeInput \in {<< i >> : i \in RouteInputs}
  /\ routeResult = <<>>
  /\ OthersIdleRoute

ScanRoutes ==
  /\ routeInput # <<>>
  /\ routeResult' = << scanRoutes(routeInput[1].methods, routeInput[1].controllerPath) >>
  /\ UNCHANGED <<routeInput, otherThanRoute>>

NextRoute == ScanRoutes

SpecRoute == InitRoute /\ [][NextRoute]_vars

(***************************************************************************)
(* Claims about the RouteScanner                                           *)
(***************************************************************************)
RoutesScanned == routeResult # <<>>
TheMethods == routeInput[1].methods
TheRoutes == routeResult[1]

\* the HTTP-method annotations and the method each stands for
MethodOf(annotation) ==
  CASE annotation = <<"G", "e", "t">> -> <<"G", "E", "T">>
    [] annotation = <<"P", "o", "s", "t">> -> <<"P", "O", "S", "T">>
    [] annotation = <<"P", "u", "t">> -> <<"P", "U", "T">>
    [] annotation = <<"P", "a", "t", "c", "h">> -> <<"P", "A", "T", "C", "H">>
    [] annotation = <<"D", "e", "l", "e", "t", "e">> -> <<"D", "E", "L", "E", "T", "E">>
    [] OTHER -> <<>>

HttpAnnotations(method) ==
  {i \in 1..Len(method.decorators) : MethodOf(method.decorators[i].name) # <<>>}

\* the handlers with exactly n HTTP-method annotations, by position
HandlersWith(n) ==
  {i \in 1..Len(TheMethods) : Cardinality(HttpAnnotations(TheMethods[i])) = n}
Annotated == {i \in 1..Len(TheMethods) : HttpAnnotations(TheMethods[i]) # {}}

\* the routes are those of the handlers at the positions I, in order, each
\* with the method of its first HTTP-method annotation
RoutesAreOf(I) ==
  /\ Len(TheRoutes) = Cardinality(I)
  /\ \A k \in 1..Len(TheRoutes) :
       LET m == Pick(TheMethods, I)[k]
           first == CHOOSE i \in HttpAnnotations(m) : \A j \in HttpAnnotations(m) : i <= j
       IN /\ TheRoutes[k].name = m.name
          /\ TheRoutes[k].httpMethod = MethodOf(m.decorators[first].name)

\* C17: a handler yields a route if and only if it carries exactly one of
\* the annotations GET, POST, PUT, PATCH, DELETE; the routes come in
\* declaration order with the method in upper case, and a handler without
\* such an annotation is skipped.
C17_RouteIffExactlyOne == RoutesScanned => RoutesAreOf(HandlersWith(1))

\* what scanRoutes does: a handler yields a route when it carries at least
\* one such annotation, and the first one names the method
RouteIffAnnotated == RoutesScanned => RoutesAreOf(Annotated)

\* a handler with two HTTP-method annotations has been scanned
TwoAnnotationsScanned ==
  /\ RoutesScanned
  /\ HandlersWith(2) # {}
  /\ Len(TheRoutes) = Cardinality(HandlersWith(1)) + Cardinality(HandlersWith(2))

\* the route made from the handler of a given name
HandlerOf(route) == CHOOSE i \in 1..Len(TheMethods) : TheMethods[i].name = route.name
BodyArguments(method) ==
  {i \in 1..Len(method.parameters) : method.parameters[i].binding = <<"B", "o", "d", "y">>}
OtherBoundArguments(method) ==
  {i \in 1..Len(method.parameters) :
     method.parameters[i].binding \in {<<"P", "a", "r", "a", "m">>, <<"Q", "u", "e", "r", "y">>, <<"H", "e", "a", "d", "e", "r", "s">>}}
HasShape(type) == type.properties # <<>>

\* C18: a body-bound argument never appears among the route's parameters;
\* requestBody is set exactly when the body's type is an object shape, so a
\* primitive body and a primitive-or-undefined body give no requestBody.
C18_BodyOnlyAsRequestBody ==
  RoutesScanned =>
    \A k \in 1..Len(TheRoutes) :
      LET m == TheMethods[HandlerOf(TheRoutes[k])]
          r == TheRoutes[k]
      IN /\ Len(r.params) = Cardinality(OtherBoundArguments(m))
         /\ \A p \in 1..Len(r.params) :
              /\ r.params[p].in \in {<<"p", "a", "t", "h">>, <<"q", "u", "e", "r", "y">>, <<"h", "e", "a", "d", "e", "r">>}
              /\ \A b \in BodyArguments(m) : r.params[p].name # m.parameters[b].name
         /\ r.requestBody # <<>> <=>
              \E b \in BodyArguments(m) : HasShape(m.parameters[b].type)
         /\ r.requestBody # <<>> =>
              \E b \in BodyArguments(m) :
                r.requestBody[1].properties = m.parameters[b].type.properties
         /\ (\A b \in BodyArguments(m) :
               m.parameters[b].type.kind \in {"primitive", "union"}) => r.requestBody = <<>>

\* an object body next to a path parameter, and a primitive-or-undefined body
C18_Witness ==
  /\ RoutesScanned
  /\ Len(TheRoutes) = 2
  /\ Len(TheMethods) = 2
  /\ Len(TheRoutes[1].params) = 1
  /\ TheRoutes[1].requestBody # <<>>
  /\ TheRoutes[1].requestBody[1].name = <<"I", "n", "l", "i", "n", "e", "T", "y", "p", "e">>
  /\ BodyArguments(TheMethods[1]) # {}
  /\ BodyArguments(TheMethods[2]) = {1}
  /\ TheMethods[2].parameters[1].type = StringOrUndefined
  /\ TheRoutes[2].requestBody = <<>>

(***************************************************************************)
(* AutoDocsModule and the re-synthesis passes of AutoDocsService.  A pass  *)
(* is in flight from its start to its completion; signals that arrive in  *)
(* between are coalesced into one follow-up pass.                          *)
(***************************************************************************)
\* AutoDocsModule.forRoot: scanOnStart: true, watchMode: false, ...options
forRoot(options) ==
  [scanOnStart |-> IF options.scanOnStart = <<>> THEN TRUE ELSE options.scanOnStart[1],
   watchMode |-> IF options.watchMode = <<>> THEN FALSE ELSE options.watchMode[1]]

\* new AutoDocsService(mergedOptions)
NewService ==
  [initialized |-> FALSE, watching |-> FALSE, inFlight |-> 0, pending |-> FALSE]

\* as requestSynthesis, but a pass is started whether or not one is in flight
requestSynthesis_Unguarded(service) ==
  [service EXCEPT !.inFlight = @ + 1]

\* a request for a pass: started at once when none is in flight, noted as
\* pending otherwise
requestSynthesis(service) ==
  IF service.inFlight > 0
  THEN [service EXCEPT !.pending = TRUE]
  ELSE [service EXCEPT !.inFlight = @ + 1]

\* as completePass, but the signals noted during the pass are forgotten
completePass_DropPending(service) ==
  [service EXCEPT !.inFlight = @ - 1, !.pending = FALSE]

\* the end of a pass: the follow-up pass starts if signals were noted
completePass(service) ==
  IF service.pending
  THEN [service EXCEPT !.pending = FALSE]
  ELSE [service EXCEPT !.inFlight = @ - 1]

\* AutoDocsService.initialize(): watch when watchMode, scan when scanOnStart
initialize(service, options) ==
  LET ready == [service EXCEPT !.initialized = TRUE, !.watching = options.watchMode]
  IN IF options.scanOnStart THEN requestSynthesis(ready) ELSE ready

MaxSignals == 6   \* file-change signals of one run

GivenOptions ==
  [scanOnStart : {<<>>, << TRUE >>, << FALSE >>}, watchMode : {<<>>, << TRUE >>, << FALSE >>}]

NewLog == [signals |-> 0, coalesced |-> 0, started |-> 0, completed |-> 0, last |-> "none"]

\* the log after a step of the given kind that took the service from s to t
Logged(log, kind, s, t) ==
  LET ended == IF kind = "complete" THEN 1 ELSE 0
      begun == t.inFlight - s.inFlight + ended
  IN [signals |-> log.signals + (IF kind = "signal" THEN 1 ELSE 0),
      coalesced |-> IF kind = "complete" THEN 0
                    ELSE IF kind = "signal" /\ s.inFlight > 0 THEN log.coalesced + 1
                    ELSE log.coalesced,
      started |-> log.started + begun,
      completed |-> log.completed + ended,
      last |-> kind]

InitSync ==
  /\ syncOptions \in {<< forRoot(o) >> : o \in GivenOptions}
  /\ syncService = << NewService >>
  /\ syncLog = << NewLog >>
  /\ OthersIdleSync

\* AutoDocsModule.onModuleInit
OnModuleInit ==
  /\ syncService # <<>>
  /\ ~syncService[1].initialized
  /\ syncService' = << initialize(syncService[1], syncOptions[1]) >>
  /\ syncLog' = << Logged(syncLog[1], "init", syncService[1], syncService'[1]) >>
  /\ UNCHANGED <<syncOptions, otherThanSync>>

\* a file-change signal from the watcher
FileChange ==
  /\ syncService # <<>>
  /\ syncService[1].watching
  /\ syncLog[1].signals < MaxSignals
  /\ syncService' = << requestSynthesis(syncService[1]) >>
  /\ syncLog' = << Logged(syncLog[1], "signal", syncService[1], syncService'[1]) >>
  /\ UNCHANGED <<syncOptions, otherThanSync>>

\* the pass in flight completes
PassComplete ==
  /\ syncService # <<>>
  /\ syncService[1].inFlight > 0
  /\ syncService' = << completePass(syncService[1]) >>
  /\ syncLog' = << Logged(syncLog[1], "complete", syncService[1], syncService'[1]) >>
  /\ UNCHANGED <<syncOptions, otherThanSync>>

NextSync ==
  \/ OnModuleInit
  \/ FileChange
  \/ PassComplete

SpecSync == InitSync /\ [][NextSync]_vars

\* a pass is a synchronous computation that ends: its completion is not
\* postponed for ever
SpecSyncFair == SpecSync /\ WF_vars(PassComplete)

(***************************************************************************)
(* Claims about the re-synthesis passes                                    *)
(***************************************************************************)
TheService == syncService[1]
TheLog == syncLog[1]
SyncRunning == syncService # <<>>

\* C19: re-synthesis passes are serialized: whatever the interleaving of
\* the start-up trigger and the file-change signals, no pass begins while
\* another is in flight, so at most one pass is running in every state.
C19_AtMostOnePassInFlight ==
  SyncRunning =>
    /\ TheService.inFlight \in {0, 1}
    /\ TheLog.started - TheLog.completed = TheService.inFlight
    /\ TheLog.started - TheLog.completed <= 1

\* signals have arrived during the start-up pass, which is still the only
\* pass in flight
C19_Witness ==
  /\ SyncRunning
  /\ TheService.inFlight = 1
  /\ TheLog.started = 1
  /\ TheLog.completed = 0
  /\ TheLog.coalesced >= 2
  /\ TheService.pending

\* a step that ends a pass
PassEnds == SyncRunning /\ syncLog'[1].completed = TheLog.completed + 1
\* a step that receives a signal
SignalReceived == SyncRunning /\ syncLog'[1].signals = TheLog.signals + 1

\* every signal either starts a pass at once or arrives during a pass; the
\* end of a pass starts exactly one more pass if one or more signals arrived
\* during it and none otherwise
CoalescedIntoOne ==
  /\ SignalReceived =>
       IF TheService.inFlight = 0
       THEN syncLog'[1].started = TheLog.started + 1
       ELSE syncLog'[1].started = TheLog.started
  /\ PassEnds =>
       IF TheLog.coalesced >= 1
       THEN syncLog'[1].started = TheLog.started + 1 /\ syncService'[1].inFlight = 1
       ELSE syncLog'[1].started = TheLog.started /\ syncService'[1].inFlight = 0

SignalsWaiting == SyncRunning /\ TheLog.coalesced >= 1
FollowUpStarted ==
  SyncRunning /\ TheLog.last = "complete" /\ TheService.inFlight = 1 /\ TheLog.coalesced = 0

\* C20: the signals received while a pass is in flight, one or many, are
\* coalesced into exactly one follow-up pass, which eventually starts once
\* the pass in flight has completed: no signal is lost and none causes more
\* than one additional pass.
C20_CoalescedFollowUpEventuallyStarts ==
  /\ [][CoalescedIntoOne]_vars
  /\ SignalsWaiting ~> FollowUpStarted

\* the follow-up pass of three coalesced signals has started
C20_Witness ==
  /\ SyncRunning
  /\ TheLog.last = "complete"
  /\ TheLog.signals = 3
  /\ TheLog.started = 2
  /\ TheLog.completed = 1
  /\ TheService.inFlight = 1
  /\ ~TheService.pending

(***************************************************************************)
(* ModuleScanner.formatModuleName applied to class names                   *)
(***************************************************************************)
MaxWords == 3   \* words a class name is made of

NameWords == {<<"A", "d", "m", "i", "n">>, <<"A", "u", "t", "h">>, <<"M", "o", "d", "u", "l", "e">>, <<"A">>, <<"u", "s", "e", "r">>, <<"M", "o", "d", "u", "l", "e", "s">>, <<"X", "1">>}

RECURSIVE Concat(_)
Concat(words) == IF words = <<>> THEN <<>> ELSE Head(words) \o Concat(Tail(words))

ModuleNames == {Concat(w) : w \in SeqsUpTo(NameWords, MaxWords)}

InitFmt ==
  /\ fmtInput \in {<< n >> : n \in ModuleNames}
  /\ fmtResult = <<>>
  /\ OthersIdleFmt

FormatModuleName ==
  /\ fmtInput # <<>>
  /\ fmtResult' = << formatModuleName(fmtInput[1]) >>
  /\ UNCHANGED <<fmtInput, otherThanFmt>>

NextFmt == FormatModuleName

SpecFmt == InitFmt /\ [][NextFmt]_vars

(***************************************************************************)
(* Claim about formatModuleName                                            *)
(***************************************************************************)
Formatted == fmtResult # <<>>
TheName == fmtInput[1]
TheLabel == fmtResult[1]

\* the name without one trailing 'Module'
Unsuffixed(name) ==
  LET n == Len(name)
  IN IF n >= 6 /\ SubSeq(name, n - 5, n) = <<"M", "o", "d", "u", "l", "e">> THEN SubSeq(name, 1, n - 6) ELSE name

Capitals == {"A", "B", "C", "D", "E", "F", "G", "H", "I", "J", "K", "L", "M",
             "N", "O", "P", "Q", "R", "S", "T", "U", "V", "W", "X", "Y", "Z"}

\* the positions of a text that hold a capital letter after the first one
Boundaries(text) == {i \in 2..Len(text) : text[i] \in Capitals}
Spaces(text) == {i \in 1..Len(text) : text[i] = " "}
WithoutSpaces(text) == Pick(text, (1..Len(text)) \ Spaces(text))

\* C21: formatModuleName removes one trailing 'Module' and puts exactly one
\* space before each capital letter inside the name, changing nothing else:
\* AdminAuthModule gives 'Admin Auth', a name of one word comes back without
\* spaces, and the label without its spaces is the name without its suffix.
C21_SuffixRemovedSpacesAtCapitals ==
  Formatted =>
    LET base == Unsuffixed(TheName) IN
      /\ WithoutSpaces(TheLabel) = base
      /\ Cardinality(Spaces(TheLabel)) = Cardinality(Boundaries(base))
      /\ \A i \in Spaces(TheLabel) :
           /\ i > 1 /\ i < Len(TheLabel)
           /\ TheLabel[i - 1] # " "
           /\ TheLabel[i + 1] \in Capitals
      /\ \A i \in Boundaries(TheLabel) : TheLabel[i - 1] = " "
      /\ Boundaries(base) = {} => TheLabel = base
      /\ TheName = <<"A", "d", "m", "i", "n", "A", "u", "t", "h", "M", "o", "d", "u", "l", "e">> => TheLabel = <<"A", "d", "m", "i", "n", " ", "A", "u", "t", "h">>

\* a name that ends in 'Module' twice keeps one of them
C21_Witness ==
  /\ Formatted
  /\ TheName = <<"A", "d", "m", "i", "n", "M", "o", "d", "u", "l", "e", "M", "o", "d", "u", "l", "e">>
  /\ TheLabel = <<"A", "d", "m", "i", "n", " ", "M", "o", "d", "u", "l", "e">>

C21_WitnessSingleWord ==
  /\ Formatted
  /\ TheName = <<"u", "s", "e", "r", "M", "o", "d", "u", "l", "e">>
  /\ TheLabel = <<"u", "s", "e", "r">>

(***************************************************************************)
(* OpenApiGenerator: security schemes and requirements.  An optional       *)
(* option is a sequence of length 0 (not set) or 1.                        *)
(***************************************************************************)
SecurityScheme(type, scheme, bearerFormat, name, in) ==
  [type |-> type, scheme |-> scheme, bearerFormat |-> bearerFormat, name |-> name, in |-> in]

\* the bearer-token scheme used when none is configured
DefaultSecurityScheme == SecurityScheme("http", "bearer", "JWT", "", "")
SecuritySchemeName == "bearerAuth"

\* options.includeSecurity, @default true
securityEnabled(options) ==
  IF options.includeSecurity = <<>> THEN TRUE ELSE options.includeSecurity[1]

\* components.securitySchemes
generateSecuritySchemes(options) ==
  IF securityEnabled(options)
  THEN << [name |-> SecuritySchemeName,
           scheme |-> IF options.securityScheme = <<>> THEN DefaultSecurityScheme
                      ELSE options.securityScheme[1]] >>
  ELSE <<>>

\* as operationSecurity, but a public route gets the requirement too
operationSecurity_IgnorePublic(route, options) ==
  IF securityEnabled(options) THEN << SecuritySchemeName >> ELSE <<>>

\* the security requirement of the operation generated from a route
operationSecurity(route, options) ==
  IF securityEnabled(options) /\ route.isPublic # << TRUE >>
  THEN << SecuritySchemeName >>
  ELSE <<>>

generateOperations(routes, options) ==
  [i \in 1..Len(routes) |->
     [route |-> routes[i].name, security |-> operationSecurity(routes[i], options)]]

generateSecurity(routes, options) ==
  [operations |-> generateOperations(routes, options),
   securitySchemes |-> generateSecuritySchemes(options)]

MaxRoutes == 3   \* routes handed to the security step

\* RouteMetadata.isPublic?: not set, true or false
SecuredRoutes ==
  {[name |-> n, isPublic |-> p] :
     n \in {"getProfile"}, p \in {<<>>, << TRUE >>, << FALSE >>}}

ApiKeyScheme == SecurityScheme("apiKey", "", "", "X-API-KEY", "header")
BasicScheme == SecurityScheme("http", "basic", "", "", "")

SecurityOptions ==
  [includeSecurity : {<<>>, << TRUE >>, << FALSE >>},
   securityScheme : {<<>>, << ApiKeyScheme >>, << BasicScheme >>}]

SecInputs ==
  {[routes |-> r, options |-> o] : r \in SeqsUpTo(SecuredRoutes, MaxRoutes), o \in SecurityOptions}

InitSec ==
  /\ secInput \in {<< i >> : i \in SecInputs}
  /\ secResult = <<>>
  /\ OthersIdleSec

GenerateSecurity ==
  /\ secInput # <<>>
  /\ secResult' = << generateSecurity(secInput[1].routes, secInput[1].options) >>
  /\ UNCHANGED <<secInput, otherThanSec>>

NextSec == GenerateSecurity

SpecSec == InitSec /\ [][NextSec]_vars

(***************************************************************************)
(* Claim about security                                                    *)
(***************************************************************************)
SecurityGenerated == secResult # <<>>
SecRoutes == secInput[1].routes
SecOptions == secInput[1].options
SecOperations == secResult[1].operations
SecSchemes == secResult[1].securitySchemes

SecurityOn == SecOptions.includeSecurity \in {<<>>, << TRUE >>}
ExpectedScheme ==
  IF SecOptions.securityScheme = <<>>
  THEN [type |-> "http", scheme |-> "bearer", bearerFormat |-> "JWT", name |-> "", in |-> ""]
  ELSE SecOptions.securityScheme[1]

\* C22: with security enabled (the default) every operation of a non-public
\* route carries the requirement of the configured, or default bearer-token,
\* scheme and no operation of a public route carries one; with security
\* disabled no scheme and no requirement is emitted.
C22_SecurityOnNonPublicOnly ==
  SecurityGenerated =>
    /\ Len(SecOperations) = Len(SecRoutes)
    /\ SecurityOn =>
         /\ Len(SecSchemes) = 1
         /\ SecSchemes[1].scheme = ExpectedScheme
         /\ \A i \in 1..Len(SecRoutes) :
              IF SecRoutes[i].isPublic = << TRUE >>
              THEN SecOperations[i].security = <<>>
              ELSE SecOperations[i].security = << SecSchemes[1].name >>
    /\ ~SecurityOn =>
         /\ SecSchemes = <<>>
         /\ \A i \in 1..Len(SecOperations) : SecOperations[i].security = <<>>

\* a public route between two that are not, under the default options
C22_Witness ==
  /\ SecurityGenerated
  /\ SecOptions.includeSecurity = <<>>
  /\ SecOptions.securityScheme = <<>>
  /\ Len(SecRoutes) = 3
  /\ SecRoutes[1].isPublic = << FALSE >>
  /\ SecRoutes[2].isPublic = << TRUE >>
  /\ SecRoutes[3].isPublic = <<>>
  /\ SecOperations[1].security = << "bearerAuth" >>
  /\ SecOperations[2].security = <<>>
  /\ SecOperations[3].security = << "bearerAuth" >>

(***************************************************************************)
(* Further claims about the DtoAnalyzer                                    *)
(***************************************************************************)
\* pairs of sibling properties of the class last handed to analyzeDto that
\* declare the same class type, other than the class itself
SiblingPairs ==
  LET ps == classDecls[dtoCall.arg.name]
  IN {<<i, j>> \in (1..Len(ps)) \X (1..Len(ps)) :
        /\ i < j
        /\ ps[i].type = ps[j].type
        /\ ps[i].type.k = "class"
        /\ ps[i].type.name # dtoCall.arg.name}

\* C23: the names consulted for cycle detection are exactly the object types
\* being expanded on the call path, a name being removed when its expansion
\* returns: no name is left once a resolution is over, and a type reached a
\* second time through a sibling property is expanded again, as the first
\* time, not replaced by a reference.
C23_VisitedIsCallPath ==
  (Called /\ dtoCall.op = "analyzeDto") =>
     /\ visitedTypes = {}
     /\ \A pair \in SiblingPairs :
          TheResult.md.properties[pair[2]].type = TheResult.md.properties[pair[1]].type

\* two sibling properties of class B have been resolved: the first one is
\* expanded and the second one is a bare reference
SiblingIsReference ==
  /\ Called /\ dtoCall.op = "analyzeDto"
  /\ \E pair \in SiblingPairs :
       /\ TheResult.md.properties[pair[1]].type.properties # <<>>
       /\ IsReference(TheResult.md.properties[pair[2]].type, <<"B">>)

\* the first occurrence is expanded whatever follows it
FirstSiblingExpanded ==
  (Called /\ dtoCall.op = "analyzeDto") =>
     \A pair \in SiblingPairs :
       TheResult.md.properties[pair[1]].type.properties # <<>>

\* a primitive string with format date-time
IsDateTime(md) == md.type = <<"string">> /\ md.isPrimitive /\ md.format = <<"date-time">>

\* the types whose name contains the text Date without being the date type
NamedLikeDate ==
  {ClassT(ClsDate), EnumT(<<"Date", "Kind">>), UnionT(<<"Date", "Range", "Dto", "|", "undefined">>)}

\* C30: a type is classified by its kind, not by its name: a class, enum or
\* union whose name contains 'Date' is resolved as an object with its
\* properties, an enum with its values or a union with its members; only
\* the date type itself becomes a primitive string with format date-time.
C30_ClassifiedByKind ==
  (Called /\ dtoCall.op = "analyzeType") =>
     /\ dtoCall.arg = DateT => IsDateTime(TheResult.md)
     /\ dtoCall.arg \in NamedLikeDate => ~IsDateTime(TheResult.md)
     /\ dtoCall.arg = ClassT(ClsDate) =>
          /\ TheResult.md.properties # <<>>
          /\ Len(TheResult.md.properties[1]) = Len(classDecls[ClsDate])
     /\ dtoCall.arg = EnumT(<<"Date", "Kind">>) =>
          /\ TheResult.md.isEnum
          /\ TheResult.md.enumValues = << EnumMembers(<<"Date", "Kind">>) >>
     /\ dtoCall.arg = UnionT(<<"Date", "Range", "Dto", "|", "undefined">>) =>
          TheResult.md.unionTypes # <<>>

\* class DateRangeDto has been resolved to a date-time string
DateNamedClassIsDateTime ==
  /\ Called /\ dtoCall.op = "analyzeType"
  /\ dtoCall.arg = ClassT(ClsDate)
  /\ IsDateTime(TheResult.md)
  /\ TheResult.md.properties = <<>>

\* types of the same kinds with other names are classified by kind
OtherNamesByKind ==
  (Called /\ dtoCall.op = "analyzeType") =>
     /\ dtoCall.arg = EnumT(<<"Status">>) => TheResult.md.isEnum
     /\ dtoCall.arg = UnionT(<<"A", "|", "B">>) => TheResult.md.unionTypes # <<>>
     /\ dtoCall.arg = DateT => IsDateTime(TheResult.md)

\* the decorators whose arguments are numeric constraints, by constraint key
NumericConstraints(name) ==
  CASE name = <<"M", "i", "n", "L", "e", "n", "g", "t", "h">> -> << "minLength" >>
    [] name = <<"M", "a", "x", "L", "e", "n", "g", "t", "h">> -> << "maxLength" >>
    [] name = <<"L", "e", "n", "g", "t", "h">> -> << "minLength", "maxLength" >>
    [] name = <<"M", "i", "n">> -> << "minimum" >>
    [] name = <<"M", "a", "x">> -> << "maximum" >>
    [] name = <<"A", "r", "r", "a", "y", "M", "i", "n", "S", "i", "z", "e">> -> << "minItems" >>
    [] name = <<"A", "r", "r", "a", "y", "M", "a", "x", "S", "i", "z", "e">> -> << "maxItems" >>
    [] OTHER -> <<>>

\* a text that is a decimal number: digits, after an optional minus sign
IsNumericText(text) ==
  LET digits == IF text # <<>> /\ text[1] = "-" THEN Tail(text) ELSE text
  IN digits # <<>> /\ \A i \in 1..Len(digits) : digits[i] \in Digits

DecimalDigit(c) ==
  CASE c = "0" -> 0 [] c = "1" -> 1 [] c = "2" -> 2 [] c = "3" -> 3 [] c = "4" -> 4
    [] c = "5" -> 5 [] c = "6" -> 6 [] c = "7" -> 7 [] c = "8" -> 8 [] c = "9" -> 9

RECURSIVE DecimalValue(_)
DecimalValue(digits) ==
  IF digits = <<>> THEN 0
  ELSE 10 * DecimalValue(SubSeq(digits, 1, Len(digits) - 1)) + DecimalDigit(Last(digits))

DenotedNumber(text) ==
  IF text[1] = "-" THEN 0 - DecimalValue(Tail(text)) ELSE DecimalValue(text)

\* the value the claim gives the constraint made from an argument text
ClaimedConstraint(text) ==
  IF IsNumericText(text) THEN NumC(DenotedNumber(text)) ELSE TextC(text)

\* the validators come one per decorator here: the i-th decorator's descriptor
ValidatorOf(i) ==
  TheValidators[Cardinality({j \in 1..i : mapValidatorDecorator(TheDecorators[j]) # <<>>})]

\* C24: for the numeric constraints the value is a number exactly when the
\* argument text is numeric, and is then the number the text denotes; any
\* other argument text is kept unchanged as text and is never rejected.
C24_NumberIffNumericText ==
  Extracted =>
    \A i \in 1..Len(TheDecorators) :
      LET keys == NumericConstraints(TheDecorators[i].name)
          args == TheDecorators[i].args
      IN \A k \in 1..Len(keys) :
           k <= Len(args) =>
             \E c \in 1..Len(ValidatorOf(i).constraints) :
               /\ ValidatorOf(i).constraints[c].key = keys[k]
               /\ ValidatorOf(i).constraints[c].value = ClaimedConstraint(args[k])

\* an argument that begins with digits has become a number
LeadingDigitsParsed ==
  /\ Extracted
  /\ Len(TheDecorators) = 1
  /\ TheDecorators[1] = Decorator(<<"M", "a", "x">>, << <<"2", " ", "*", " ", "8">> >>)
  /\ TheValidators[1].constraints[1].value = NumC(2)

\* the arguments that are numeric, or do not begin like a number, are
\* treated as claimed
C24_ExceptLeadingDigits ==
  Extracted =>
    \A i \in 1..Len(TheDecorators) :
      LET keys == NumericConstraints(TheDecorators[i].name)
          args == TheDecorators[i].args
      IN \A k \in 1..Len(keys) :
           (k <= Len(args) /\ (IsNumericText(args[k]) \/ parseInt(args[k]).nan)) =>
             \E c \in 1..Len(ValidatorOf(i).constraints) :
               /\ ValidatorOf(i).constraints[c].key = keys[k]
               /\ ValidatorOf(i).constraints[c].value = ClaimedConstraint(args[k])

(***************************************************************************)
(* Example synthesis for arrays, enums and objects: the descriptors are    *)
(* those the DtoAnalyzer produces for such property types                  *)
(***************************************************************************)
\* T[] with T primitive: the primitive branch keeps isPrimitive and sets isArray
PrimitiveArrayMeta(type) ==
  Meta(type, TRUE, TRUE, FALSE, << PrimitiveMeta(type, <<>>) >>, <<>>, <<>>, <<>>, <<>>)

EnumMeta(values) == Meta(<<"string">>, FALSE, FALSE, TRUE, <<>>, <<>>, << values >>, <<>>, <<>>)
EnumArrayMeta(values) ==
  Meta(<<"string">>, FALSE, TRUE, TRUE, << EnumMeta(values) >>, <<>>, << values >>, <<>>, <<>>)

ObjectMeta(name, properties) ==
  Meta(name, FALSE, FALSE, FALSE, <<>>, <<>>, <<>>, <<>>, << properties >>)
ObjectArrayMeta(name, properties) ==
  Meta(name, FALSE, TRUE, FALSE, << ObjectMeta(name, properties) >>, <<>>, <<>>, <<>>,
       << properties >>)

\* T[][]: the outer array is neither primitive nor a class
NestedArrayMeta(inner) ==
  Meta(inner.type \o <<"[]">>, FALSE, TRUE, FALSE, << inner >>, <<>>, <<>>, <<>>, <<>>)

AddressProperties ==
  << PropertyMetadata(<<"c", "i", "t", "y">>, << PrimitiveMeta(<<"string">>, <<>>) >>),
     PropertyMetadata(<<"z", "i", "p", "C", "o", "d", "e">>, << PrimitiveMeta(<<"string">>, <<>>) >>),
     PropertyMetadata(<<"t", "a", "g", "s">>, << PrimitiveArrayMeta(<<"string">>) >>) >>

StructuredMeta ==
  {PrimitiveArrayMeta(t) : t \in {<<"string">>, <<"number">>, <<"boolean">>}}
    \cup {EnumMeta(v) : v \in {<<"on", "off">>, <<"admin">>, <<>>}}
    \cup {EnumArrayMeta(<<"on", "off">>)}
    \cup {ObjectMeta(<<"Address">>, p) :
            p \in {<<>>, AddressProperties, SubSeq(AddressProperties, 1, 2)}}
    \cup {ObjectArrayMeta(<<"Address">>, AddressProperties)}
    \cup {NestedArrayMeta(PrimitiveArrayMeta(<<"string">>)),
          NestedArrayMeta(ObjectArrayMeta(<<"Address">>, AddressProperties))}

StructuredProperties ==
  {PropertyMetadata(n, << m >>) :
     n \in {<<"t", "a", "g", "s">>, <<"e", "m", "a", "i", "l">>, <<"s", "t", "a", "t", "u", "s">>, <<"a", "d", "d", "r", "e", "s", "s">>, <<"x">>, <<>>}, m \in StructuredMeta}

InitExStructured ==
  /\ exInput \in {<< p >> : p \in StructuredProperties}
  /\ exResult = <<>>
  /\ OthersIdleEx

SpecExStructured == InitExStructured /\ [][NextEx]_vars

TheType == TheProperty.type[1]

\* the names of the declared properties of an object descriptor
DeclaredNames(meta) == {meta.properties[1][i].name : i \in 1..Len(meta.properties[1])}

\* C25: for every descriptor marked as an array, arrays of primitives
\* included, the example is an array of exactly one element, the example of
\* the element type; for an enum it is the first declared value, and for an
\* object it is an object with one key per declared property.
C25_ArrayEnumObjectExamples ==
  ExampleDone =>
    /\ (TheType.isArray /\ TheType.elementType # <<>>) =>
         /\ TheExample.k = "array"
         /\ Len(TheExample.items) = 1
         /\ TheExample.items[1] = generateFromType(TheType.elementType[1], <<>>)
    /\ (~TheType.isArray /\ TheType.isEnum /\ TheType.enumValues[1] # <<>>) =>
         TheExample = StrV(<< TheType.enumValues[1][1] >>)
    /\ (~TheType.isArray /\ ~TheType.isEnum /\ ~TheType.isPrimitive
          /\ TheType.properties # <<>>) =>
         /\ TheExample.k = "object"
         /\ Len(TheExample.fields) = Cardinality(DeclaredNames(TheType))
         /\ {TheExample.fields[i].name : i \in 1..Len(TheExample.fields)} = DeclaredNames(TheType)

\* the example of a string[] property is a string
PrimitiveArrayGivesScalar ==
  /\ ExampleDone
  /\ TheProperty.name = <<"t", "a", "g", "s">>
  /\ TheType = PrimitiveArrayMeta(<<"string">>)
  /\ TheExample.k = "string"

\* the same for every descriptor that is not a primitive array
C25_ExceptPrimitiveArrays ==
  (ExampleDone /\ ~(TheType.isArray /\ TheType.isPrimitive)) => C25_ArrayEnumObjectExamples

(***************************************************************************)
(* RouteScanner: one handler under varied base paths and route paths       *)
(***************************************************************************)
BasePaths == {<<>>, <<"/">>, <<"t", "e", "s", "t">>, <<"/", "t", "e", "s", "t">>, <<"t", "e", "s", "t", "/">>, <<"/", "a", "p", "i", "/", "t", "e", "s", "t", "/">>, <<"a", "p", "i", "/", "/", "t", "e", "s", "t">>, <<"/", "/">>}
RoutePaths == {<<>>, << <<>> >>, << <<"i", "t", "e", "m", "s">> >>, << <<"/", "i", "t", "e", "m", "s">> >>, << <<":", "i", "d", "/">> >>,
               << <<"/">> >>, << <<"i", "t", "e", "m", "s", "/", ":", "i", "d">> >>, << <<"/", "/", "i", "t", "e", "m", "s">> >>}

RoutePathInputs ==
  {RouteInput(<< MethodDeclaration(<<"h", "a", "n", "d", "l", "e", "r", "1">>, << MethodDecorator(<<"G", "e", "t">>, p) >>, <<>>) >>, b) :
     b \in BasePaths, p \in RoutePaths}

InitRoutePaths ==
  /\ routeInput \in {<< i >> : i \in RoutePathInputs}
  /\ routeResult = <<>>
  /\ OthersIdleRoute

SpecRoutePaths == InitRoutePaths /\ [][NextRoute]_vars

TheBasePath == routeInput[1].controllerPath

\* the parts of a full path: the base path and the route path that are
\* neither empty nor a lone separator
KeptParts(route) ==
  LET given == << TheBasePath, route.path >>
  IN Pick(given, {i \in 1..2 : given[i] # <<>> /\ given[i] # <<"/">>})

EndsWithSeparator(text) == text # <<>> /\ text[Len(text)] = "/"

\* C26: for every route, fullPath equals combinePathSegments([basePath,
\* routePath]): the two joined by a single separator with empty parts
\* dropped, so that an empty route path leaves the base path alone.
C26_FullPathIsCombinedSegments ==
  RoutesScanned =>
    \A k \in 1..Len(TheRoutes) :
      TheRoutes[k].fullPath = combinePaths(<< TheBasePath, TheRoutes[k].path >>)

\* what the scanner computes when each part is segments joined by single
\* separators: a separator followed by the combined segments
FullPathOfPlainParts ==
  RoutesScanned =>
    \A k \in 1..Len(TheRoutes) :
      LET parts == KeptParts(TheRoutes[k])
      IN (\A i \in 1..Len(parts) : parts[i] = join(SegmentsOf(parts[i]), <<"/">>)) =>
           TheRoutes[k].fullPath = <<"/">> \o combinePaths(<< TheBasePath, TheRoutes[k].path >>)

\* the route of the scanner's own test: 'test' and 'items' give '/test/items'
LeadingSeparatorAdded ==
  /\ RoutesScanned
  /\ TheBasePath = <<"t", "e", "s", "t">>
  /\ Len(TheRoutes) = 1
  /\ TheRoutes[1].path = <<"i", "t", "e", "m", "s">>
  /\ TheRoutes[1].fullPath = <<"/", "t", "e", "s", "t", "/", "i", "t", "e", "m", "s">>

\* a base path that begins with a separator gives a full path with two
DoubledLeadingSeparator ==
  /\ RoutesScanned
  /\ TheBasePath = <<"/", "t", "e", "s", "t">>
  /\ Len(TheRoutes) = 1
  /\ TheRoutes[1].path = <<"i", "t", "e", "m", "s">>
  /\ TheRoutes[1].fullPath = <<"/", "/", "t", "e", "s", "t", "/", "i", "t", "e", "m", "s">>

(***************************************************************************)
(* Claims about the defaulted options                                      *)
(***************************************************************************)
DefaultedKeys ==
  {"sourcePath", "docsPath", "specPath", "scanOnStart", "watchMode", "includeSecurity"}

\* the documented default of a defaulted option
DefaultOf(k) == Defaulted([key \in OptionKeys |-> Absent])[k]

\* the caller set a value for the key
CallerSet(options, k) == options[k].tag \in {"str", "bool"}

\* C27: after a successful construction each of the six defaulted options
\* read through get or getAll is the caller's value when the caller set one
\* and the documented default otherwise, and is never undefined, whatever
\* the options object, one with a key explicitly set to undefined included.
C27_DefaultedNeverUndefined ==
  cfgState = "constructed" =>
    /\ \A k \in DefaultedKeys :
         /\ config[1][k] = IF CallerSet(cfgInput[1], k) THEN cfgInput[1][k] ELSE DefaultOf(k)
         /\ ~Nullish(config[1][k])
    /\ cfgRead # <<>> /\ cfgRead[1].key \in DefaultedKeys => ~Nullish(cfgRead[1].value)

\* get returned undefined for a defaulted option the caller passed as undefined
ExplicitUndefinedRead ==
  /\ cfgState = "constructed"
  /\ cfgRead # <<>>
  /\ cfgRead[1].key \in DefaultedKeys
  /\ cfgInput[1][cfgRead[1].key] = Undef
  /\ cfgRead[1].value = Undef

\* the defaults are as claimed for every key the caller did not pass as undefined
C27_ExceptExplicitUndefined ==
  cfgState = "constructed" =>
    \A k \in DefaultedKeys :
      cfgInput[1][k] # Undef =>
        /\ config[1][k] = IF CallerSet(cfgInput[1], k) THEN cfgInput[1][k] ELSE DefaultOf(k)
        /\ ~Nullish(config[1][k])
        /\ cfgRead # <<>> /\ cfgRead[1].key = k => cfgRead[1].value = config[1][k]

(***************************************************************************)
(* Claims about the stored configuration and its caller                    *)
(***************************************************************************)
\* the theme object as the caller built it, before the construction
ThemeAsBuilt == [primaryColor |-> "#00f2ff", darkMode |-> TRUE]

\* what a read of the value shows: a nested object shows its fields
Shown(value, objects) ==
  IF value.tag = "obj" THEN << value, objects[value.s[1]] >> ELSE << value >>

\* what get(k) shows for every key, given the nested objects
AllShown(stored, objects) == [k \in OptionKeys |-> Shown(stored[k], objects)]

\* what every get(k) and getAll showed immediately after construction
ShownAfterConstruction ==
  AllShown(mergeWithDefaults(cfgInput[1]), [a \in DOMAIN nested |-> ThemeAsBuilt])

\* C28: the stored configuration is immutable after construction: after
\* any get and getAll calls and any mutation by the caller of an object
\* getAll returned (its top-level fields or its nested objects), every
\* later get(k) and getAll shows the values of just after construction.
C28_StoredConfigurationImmutable ==
  cfgState = "constructed" =>
    /\ AllShown(config[1], nested) = ShownAfterConstruction
    /\ AllShown(getAll(config[1]), nested) = ShownAfterConstruction

\* the caller changed the theme of a returned object and the stored
\* configuration shows the change
NestedMutationSeen ==
  /\ cfgState = "constructed"
  /\ returned # <<>>
  /\ config[1]["theme"].tag = "obj"
  /\ nested[config[1]["theme"].s[1]] # ThemeAsBuilt

\* the top-level fields of the stored configuration never change, whatever
\* the caller writes into the returned object
TopLevelImmutable ==
  cfgState = "constructed" => config[1] = mergeWithDefaults(cfgInput[1])

\* the caller changed a top-level field of a returned object and the stored
\* configuration kept its own
TopLevelMutationNotSeen ==
  /\ cfgState = "constructed"
  /\ returned # <<>>
  /\ returned[1]["sourcePath"] # config[1]["sourcePath"]

(***************************************************************************)
(* Claims about the value type of primitive examples                       *)
(***************************************************************************)
\* the value type a declared primitive type stands for
ValueTypeOf(type) ==
  CASE type = <<"string">> -> "string"
    [] type \in {<<"number">>, <<"integer">>} -> "number"
    [] type = <<"boolean">> -> "boolean"
    [] OTHER -> "null"

DeclaredValueTypes == {<<"string">>, <<"number">>, <<"boolean">>}

\* C29: for every primitive property, whatever its name and format, the
\* example has the value type of the declared type: a string for a declared
\* string, a number for a declared number, a boolean for a declared boolean
\* (or null when no rule applies).
C29_ExampleHasDeclaredValueType ==
  ExampleDone /\ TheProperty.type[1].isPrimitive
              /\ TheProperty.type[1].type \in DeclaredValueTypes =>
    TheExample.k \in {ValueTypeOf(TheProperty.type[1].type), "null"}

\* a property declared number and named `email` got a string example
NumberNamedEmailGetsString ==
  /\ ExampleDone
  /\ TheProperty.name = <<"e", "m", "a", "i", "l">>
  /\ TheProperty.type[1].type = <<"number">>
  /\ TheProperty.type[1].format = <<>>
  /\ TheExample = EmailSample

\* no format case and no field-name rule applies to the property
NoFormatOrNameRule ==
  /\ exampleFromFormat(DeclaredFormat) = <<>>
  /\ exampleFromFieldName(toLowerCaseText(TheProperty.name)) = <<>>

\* the example has the declared value type when neither the format nor the
\* field name decides it
DeclaredValueTypeWithoutRules ==
  ExampleDone /\ TheProperty.type[1].isPrimitive
              /\ TheProperty.type[1].type \in DeclaredValueTypes
              /\ NoFormatOrNameRule =>
    TheExample.k = ValueTypeOf(TheProperty.type[1].type)

====
